---- MODULE Spec2Model ----
(***************************************************************************)
(* Model of the dialogue context manager and of the realtime transcriber   *)
(* of xh_2.py.                                                             *)
(*                                                                         *)
(* Texts are sequences of one-character strings, so that str.strip,        *)
(* str.split and str.join are computed and not assumed.  None is the       *)
(* one-element sequence <<"None">>, which no text equals.                  *)
(*                                                                         *)
(* DialogueContextManager: one caller thread runs add_qa and clear, the    *)
(* summarization worker thread runs _perform_summarization, reader         *)
(* threads run get_context_for_query and get_full_context.  Only the       *)
(* worker takes _summarization_lock, so the statements of the three run    *)
(* interleaved; an augmented assignment is a read followed by a write.     *)
(*                                                                         *)
(* AudioTranscriberRealtime: the hotkey listener thread runs               *)
(* start_recording, a thread started on key release runs stop_recording,   *)
(* the receiver thread of a connection runs _on_message.  _on_message and  *)
(* the reads of stop_recording take _transcript_lock; the resets of the    *)
(* accumulator in start_recording and stop_recording do not.               *)
(*                                                                         *)
(* run_daemon: on_press and on_release run one after the other on the      *)
(* listener thread; on_press calls start_recording and returns when it     *)
(* has returned, on_release starts a thread that calls stop_recording.     *)
(***************************************************************************)
EXTENDS Integers, Sequences, FiniteSets, TLC

\* ------------------------------------------------------------------ texts
None == <<"None">>

IsSpace(c) == c = " "

RECURSIVE LStrip(_)
LStrip(s) == IF s = <<>> THEN <<>>
             ELSE IF IsSpace(Head(s)) THEN LStrip(Tail(s)) ELSE s

RECURSIVE RStrip(_)
RStrip(s) == IF s = <<>> THEN <<>>
             ELSE IF IsSpace(s[Len(s)]) THEN RStrip(SubSeq(s, 1, Len(s) - 1)) ELSE s

\* str.strip()
Strip(s) == RStrip(LStrip(s))

\* len(text.split()): the number of maximal runs of non-space characters
RECURSIVE WordCount(_)
WordCount(s) ==
    IF s = <<>> THEN 0
    ELSE IF IsSpace(Head(s)) THEN WordCount(Tail(s))
    ELSE IF Len(s) = 1 \/ IsSpace(s[2]) THEN 1 + WordCount(Tail(s))
    ELSE WordCount(Tail(s))

\* " ".join(parts)
RECURSIVE JoinSpace(_)
JoinSpace(parts) ==
    IF parts = <<>> THEN <<>>
    ELSE IF Len(parts) = 1 THEN parts[1]
    ELSE parts[1] \o <<" ">> \o JoinSpace(Tail(parts))

\* a truthy str: not None and not empty
Truthy(s) == s # None /\ s # <<>>

\* DialogueContextManager._estimate_tokens
EstimateTokens(text) == WordCount(text) + (Len(text) \div 4)

\* ------------------------------------------------------------- parameters
\* number of add_qa calls of a run
MaxTurns == 4
\* add_qa is not called while this many batches wait in the queue
MaxQueue == 1
\* clear() calls of a run
MaxClears == 1
\* the clock starts at StartTime and is not advanced past MaxTime
StartTime == 100
MaxTime == 161

\* The managers of the repository differ in the number of entries a collapse
\* retains (keep_count = 2 in wp_11_analist_gemini.py, recent_qa[-4:] in
\* xh_2.py) and are constructed with a max_recent_entries of the caller's
\* choice.  The runs are checked for these pairs; in the last one the buffer
\* is never longer than what a collapse retains.
Configs == { [keep |-> 2, max |-> 3], [keep |-> 4, max |-> 5], [keep |-> 4, max |-> 2] }
ThresholdChoices == {9}
\* amounts by which the clock advances between two steps
TickChoices == {61}

\* self.min_summarization_interval
min_summarization_interval == 60
\* ClipboardSender._debounce_seconds, and the two flush thresholds of
\* send_to_api_streaming: len(buffer) >= 200, (now - last_send) > 1.0
debounce_seconds == 2
flush_length == 200
flush_seconds == 1
\* the number of entries get_context_for_query renders: recent_qa[-4:]
QueryCount == 4
\* self._summarization_queue = queue.Queue(): maxsize 0, a queue without limit
queue_maxsize == 0

\* start_recording calls of a run that pass the is_recording test
MaxSessions == 2
\* the sessions of a run that is followed through all its messages
RecSessions == 1
\* Results messages delivered in a run of the key handlers
KeyEvents == 1
\* Results messages delivered in a run
MaxEvents == 3
\* audio chunks the ffmpeg pipe delivers to a sender that is followed
MaxChunks == 2
\* inbound messages that are not applied
MaxBad == 1
\* human_like_typing threads, lines of a text, calls of toggle_typing_pause
MaxTypers == 2
MaxLines == 2
MaxToggles == 2
\* the clock of the Telegram sender, pieces of a stream, direct calls
MaxClock == 103
MaxPieces == 3
MaxDirect == 3

\* What the service transcribes in a run: the transcripts its Results messages
\* carry, as sent (not yet stripped)
Utterances == {
    { <<" ", "h", "e">>, <<"h", "e", "l", "l", "o">>, <<"h", "e", "l", "l", "o", " ", "w", "o", "r", "l", "d", " ">> },
    { <<"p", "a", "r", "t", " ", "o", "n", "e">>, <<" ", "p", "a", "r", "t", " ", "t", "w">> },
    { <<" ">>, <<"a", " ">> } }

\* (question, answer) arguments of add_qa: 1 token and 5 tokens
QAInputs == { << <<"a">>, <<"b">> >>,
              << <<"a", " ", "b">>, <<" ", "c", " ", "d">> >> }

\* message contents the summarization API may answer with
ApiContents == { <<" ", "s", " ">>, <<" ">> }

\* ------------------------------------------------------------ list helpers
\* lst[-n:]
LastN(lst, n) == IF Len(lst) <= n THEN lst ELSE SubSeq(lst, Len(lst) - n + 1, Len(lst))

\* sum(e.tokens for e in lst)
RECURSIVE SumTokens(_)
SumTokens(lst) == IF lst = <<>> THEN 0 ELSE Head(lst).tokens + SumTokens(Tail(lst))

Uids(lst) == { lst[i].uid : i \in 1..Len(lst) }

\* QAEntry; uid stands for the identity of the object.  The timestamp field is
\* written by add_qa and read by no statement of the program: it is left out.
NoEntry == [question |-> <<>>, answer |-> <<>>, tokens |-> 0, uid |-> 0]

VARIABLES
    \* DialogueContextManager
    max_recent_entries, keep_count, summarization_threshold, solver,
    recent_qa, summary, last_summarization_time, token_count,
    summarization_lock, summarization_queue,
    now,
    \* caller thread (add_qa, clear)
    cpc, c_entry, c_tmp, c_removed,
    \* summarization worker thread
    wpc, w_batch, w_summary, w_slice, w_tmp,
    \* reader thread (get_context_for_query, get_full_context)
    rpc, r_kind, r_summary, r_result,
    \* history: what was added, what a lock-step execution would hold, which
    \* summary version is installed, what each collapse removed
    h_count, h_expect, h_shrunk, h_clears, h_ver, h_removed, h_gone,
    h_share, h_pre, h_attempts, h_successes, h_rver, h_rturns, h_overlap,
    \* AudioTranscriberRealtime; proc, conn and sender are the states of the
    \* ffmpeg process, the connection and the sender thread of every session
    utterance,
    is_recording, ffmpeg_process, proc, ws_app, conn, send_thread, sender,
    ws_connected, stop_sending, transcript_lock, final_chunks, partial,
    \* the listener thread in start_recording
    kpc, k_sess,
    \* the thread in stop_recording
    spc, s_parts, s_text, s_result,
    \* history: sessions started, stops completed, messages delivered, the last
    \* message, the messages applied since the accumulator was last empty, and
    \* what the locked section of stop_recording read
    h_sessions, h_stops, h_msgs, h_last, h_events, h_exact,
    h_read_events, h_read_exact, h_rd_chunks, h_rd_partial,
    \* run_daemon: the threads on_release has started whose stop_recording has
    \* not begun; history: the last start_recording call failed, and the number
    \* of the session that was the last one started when stop_recording
    \* cleared is_recording
    stop_threads, h_failed, h_target,
    \* send_audio, statement by statement, for the sender thread of session
    \* a_sess: its position, the process whose pipe it reads, the frames it has
    \* sent; history: chunks read, the connection was open when the loop was
    \* left, a send or a read raised, an event was applied after that
    apc, a_sess, a_pipe, frames, h_chunks, h_exit_open, h_send_failed, h_after_fail,
    \* history: the inbound messages _on_message returned from without a
    \* write, and whether an event was applied after one of them
    h_bad, h_after_bad,
    \* history: the session whose connection delivered each entry of
    \* _final_chunks and the text of _partial (0: none), and the sessions
    \* whose text the locked section of stop_recording read; no
    \* start_recording has run while a stop_recording was in progress
    h_chunk_src, h_partial_src, h_rd_src, h_apart,
    \* run_daemon: the two flags of the key handlers; history: the keys that
    \* are held down
    num_lock_pressed, ctrl_pressed, h_down,
    \* the module-level flags typing_active and typing_paused; for every
    \* human_like_typing thread its position and the lines it has left to type;
    \* history: the calls of toggle_typing_pause
    typing_active, typing_paused, tpc, t_left, h_toggles,
    \* ClipboardSender: the clock, _last_sent_hash (<<>> for None) and
    \* _last_sent_time, the texts Telegram has accepted; the send_to_telegram
    \* call in progress: its position, the cleaned message, h, now, ok, the parts
    \* left to send and whether send_to_api_streaming called it
    tg_now, last_sent_hash, last_sent_time, delivered,
    gpc, g_message, g_h, g_now, g_ok, g_left, g_stream,
    \* send_to_api_streaming: its position, buffer, full, last_send; history:
    \* the pieces received, the buffers handed to send_to_telegram
    qpc, buffer, full, last_send, h_pieces, h_flushed,
    \* history: the last send_to_telegram that returned True (text and time),
    \* the last call that reached its send and its result, a post has failed,
    \* the calls made by the clipboard and F-key threads
    h_ok_text, h_ok_time, h_prev_text, h_prev_ok, h_refused, h_direct

config == << max_recent_entries, keep_count, summarization_threshold, solver >>
shared == << recent_qa, summary, last_summarization_time, token_count,
             summarization_lock, summarization_queue >>
callerLocals == << cpc, c_entry, c_tmp, c_removed >>
workerLocals == << wpc, w_batch, w_summary, w_slice, w_tmp >>
readerLocals == << rpc, r_kind, r_summary, r_result, h_rver, h_rturns >>
callerHist == << h_count, h_expect, h_clears >>
workerHist == << h_ver, h_removed, h_pre, h_attempts, h_successes >>

ctxvars == << config, shared, now, callerLocals, workerLocals, readerLocals,
              callerHist, workerHist, h_shrunk, h_gone, h_share, h_overlap >>

recFlags == << is_recording, stop_sending, ws_connected >>
recProc == << ffmpeg_process, proc >>
recWs == << ws_app, conn >>
recSend == << send_thread, sender >>
recAcc == << final_chunks, partial, transcript_lock >>
listenerLocals == << kpc, k_sess >>
stopLocals == << spc, s_parts, s_text, s_result >>
readHist == << h_read_events, h_read_exact, h_rd_chunks, h_rd_partial >>
recHist == << h_sessions, h_stops, h_msgs, h_last, h_events, h_exact, readHist >>

keyvars == << stop_threads, h_failed, h_target >>
sendvars == << apc, a_sess, a_pipe, frames, h_chunks, h_exit_open, h_send_failed,
               h_after_fail >>

msgvars == << h_bad, h_after_bad >>
srcvars == << h_chunk_src, h_partial_src, h_rd_src, h_apart >>
hotvars == << num_lock_pressed, ctrl_pressed, h_down >>

typevars == << typing_active, typing_paused, tpc, t_left, h_toggles >>

\* the state of the daemon outside the recorder and the context manager
tgvars == << tg_now, last_sent_hash, last_sent_time, delivered,
            gpc, g_message, g_h, g_now, g_ok, g_left, g_stream >>
streamvars == << qpc, buffer, full, last_send, h_pieces, h_flushed >>
tgHist == << h_ok_text, h_ok_time, h_prev_text, h_prev_ok, h_refused, h_direct >>

dmnvars == << typevars, tgvars, streamvars, tgHist >>

recOnly == << utterance, recFlags, recProc, recWs, recSend, recAcc, listenerLocals,
              stopLocals, recHist, keyvars, sendvars, msgvars, srcvars, hotvars >>

recvars == << recOnly, dmnvars >>

vars == << ctxvars, recvars >>

\* --------------------------------------------- DialogueContextManager.__init__
InitCtx ==
    /\ \E c \in Configs : max_recent_entries = c.max /\ keep_count = c.keep
    /\ summarization_threshold \in ThresholdChoices
    /\ solver \in BOOLEAN
    /\ recent_qa = <<>>
    /\ summary = <<>>
    /\ last_summarization_time = 0
    /\ token_count = 0
    /\ summarization_lock = "free"
    /\ summarization_queue = <<>>
    /\ now = StartTime
    /\ cpc = "idle" /\ c_entry = NoEntry /\ c_tmp = 0 /\ c_removed = NoEntry
    /\ wpc = "get" /\ w_batch = <<>> /\ w_summary = None /\ w_slice = <<>> /\ w_tmp = 0
    /\ rpc = "idle" /\ r_kind = "none" /\ r_summary = <<>> /\ r_result = None
    /\ h_count = 0 /\ h_expect = <<>> /\ h_shrunk = FALSE /\ h_clears = 0
    /\ h_ver = 0 /\ h_removed = <<>> /\ h_gone = {} /\ h_share = 0
    /\ h_pre = <<>> /\ h_attempts = 0 /\ h_successes = 0
    /\ h_rver = 0 /\ h_rturns = <<>>
    /\ h_overlap = FALSE

\* time.time() advances
Tick ==
    /\ \E d \in TickChoices : now + d <= MaxTime /\ now' = now + d
    /\ UNCHANGED << config, shared, callerLocals, workerLocals, readerLocals,
                    callerHist, workerHist, h_shrunk, h_gone, h_share >>

\* ------------------------------------------------------------------ add_qa
\* entry = QAEntry(...); self.recent_qa.append(entry)
AddQaAppend ==
    /\ cpc = "idle"
    /\ h_count < MaxTurns
    /\ \E qa \in QAInputs :
         LET entry == [question |-> qa[1], answer |-> qa[2],
                       tokens |-> EstimateTokens(qa[1] \o qa[2]),
                       uid |-> h_count + 1]
         IN /\ c_entry' = entry
            /\ recent_qa' = Append(recent_qa, entry)
            /\ h_expect' = LastN(Append(h_expect, entry), max_recent_entries)
    /\ h_count' = h_count + 1
    /\ cpc' = "add_inc_read"
    /\ UNCHANGED << config, summary, last_summarization_time, token_count,
                    summarization_lock, summarization_queue, now, c_tmp, c_removed,
                    workerLocals, readerLocals, h_clears, workerHist, h_shrunk, h_gone,
                    h_share >>

\* an add_qa that goes on only while the worker is outside its locked section
AddQaIncReadWaitsForLock ==
    /\ cpc = "add_inc_read"
    /\ summarization_lock = "free"
    /\ c_tmp' = token_count
    /\ cpc' = "add_inc_write"
    /\ UNCHANGED << config, shared, now, c_entry, c_removed, workerLocals, readerLocals,
                    callerHist, workerHist, h_shrunk, h_gone, h_share >>

\* self._token_count += entry.tokens (the read)
AddQaIncRead ==
    /\ cpc = "add_inc_read"
    /\ c_tmp' = token_count
    /\ cpc' = "add_inc_write"
    /\ UNCHANGED << config, shared, now, c_entry, c_removed, workerLocals, readerLocals,
                    callerHist, workerHist, h_shrunk, h_gone, h_share >>

\* self._token_count += entry.tokens (the write)
AddQaIncWrite ==
    /\ cpc = "add_inc_write"
    /\ token_count' = c_tmp + c_entry.tokens
    /\ cpc' = "add_while"
    /\ UNCHANGED << config, recent_qa, summary, last_summarization_time,
                    summarization_lock, summarization_queue, now,
                    c_entry, c_tmp, c_removed, workerLocals, readerLocals,
                    callerHist, workerHist, h_shrunk, h_gone, h_share >>

\* add_qa without its eviction loop
AddQaWhileNeverEvicts ==
    /\ cpc = "add_while"
    /\ cpc' = "add_check"
    /\ UNCHANGED << config, shared, now, c_entry, c_tmp, c_removed, workerLocals,
                    readerLocals, callerHist, workerHist, h_shrunk, h_gone, h_share >>

\* while len(self.recent_qa) > self.max_recent_entries:
AddQaWhile ==
    /\ cpc = "add_while"
    /\ cpc' = IF Len(recent_qa) > max_recent_entries THEN "add_pop" ELSE "add_check"
    /\ UNCHANGED << config, shared, now, c_entry, c_tmp, c_removed, workerLocals,
                    readerLocals, callerHist, workerHist, h_shrunk, h_gone, h_share >>

\* removed = self.recent_qa.pop(): the newest entry is evicted
AddQaPopNewest ==
    /\ cpc = "add_pop"
    /\ recent_qa # <<>>
    /\ c_removed' = recent_qa[Len(recent_qa)]
    /\ recent_qa' = SubSeq(recent_qa, 1, Len(recent_qa) - 1)
    /\ h_gone' = h_gone \cup {recent_qa[Len(recent_qa)].uid}
    /\ cpc' = "add_dec_read"
    /\ UNCHANGED << config, summary, last_summarization_time, token_count,
                    summarization_lock, summarization_queue, now, c_entry, c_tmp,
                    workerLocals, readerLocals, callerHist, workerHist, h_shrunk, h_share >>

\* removed = self.recent_qa.pop(0)
AddQaPop ==
    /\ cpc = "add_pop"
    /\ recent_qa # <<>>
    /\ c_removed' = Head(recent_qa)
    /\ recent_qa' = Tail(recent_qa)
    /\ h_gone' = h_gone \cup {Head(recent_qa).uid}
    /\ cpc' = "add_dec_read"
    /\ UNCHANGED << config, summary, last_summarization_time, token_count,
                    summarization_lock, summarization_queue, now, c_entry, c_tmp,
                    workerLocals, readerLocals, callerHist, workerHist, h_shrunk, h_share >>

\* self._token_count -= removed.tokens (the read)
AddQaDecRead ==
    /\ cpc = "add_dec_read"
    /\ c_tmp' = token_count
    /\ cpc' = "add_dec_write"
    /\ UNCHANGED << config, shared, now, c_entry, c_removed, workerLocals, readerLocals,
                    callerHist, workerHist, h_shrunk, h_gone, h_share >>

\* self._token_count -= entry.tokens: the weight of the entry added is
\* subtracted for the entry evicted
AddQaDecWriteAdded ==
    /\ cpc = "add_dec_write"
    /\ token_count' = c_tmp - c_entry.tokens
    /\ cpc' = "add_while"
    /\ UNCHANGED << config, recent_qa, summary, last_summarization_time,
                    summarization_lock, summarization_queue, now,
                    c_entry, c_tmp, c_removed, workerLocals, readerLocals,
                    callerHist, workerHist, h_shrunk, h_gone, h_share >>

\* self._token_count -= removed.tokens (the write)
AddQaDecWrite ==
    /\ cpc = "add_dec_write"
    /\ token_count' = c_tmp - c_removed.tokens
    /\ cpc' = "add_while"
    /\ UNCHANGED << config, recent_qa, summary, last_summarization_time,
                    summarization_lock, summarization_queue, now,
                    c_entry, c_tmp, c_removed, workerLocals, readerLocals,
                    callerHist, workerHist, h_shrunk, h_gone, h_share >>

\* a _check_summarization_needed without its interval test
SummarizationNeededIgnoresInterval ==
    token_count > summarization_threshold

\* the condition of _check_summarization_needed
SummarizationNeeded ==
    /\ token_count > summarization_threshold
    /\ now - last_summarization_time > min_summarization_interval

\* _check_summarization_needed: the test
AddQaCheck ==
    /\ cpc = "add_check"
    /\ cpc' = IF SummarizationNeeded THEN "add_put" ELSE "idle"
    /\ c_entry' = IF SummarizationNeeded THEN c_entry ELSE NoEntry
    /\ c_removed' = IF SummarizationNeeded THEN c_removed ELSE NoEntry
    /\ c_tmp' = IF SummarizationNeeded THEN c_tmp ELSE 0
    /\ UNCHANGED << config, shared, now, workerLocals, readerLocals,
                    callerHist, workerHist, h_shrunk, h_gone, h_share >>

\* Queue.put_nowait raises queue.Full when maxsize > 0 and qsize() >= maxsize
QueueFull == queue_maxsize > 0 /\ Len(summarization_queue) >= queue_maxsize

\* qa_to_summarize = self.recent_qa.copy(); put_nowait(qa_to_summarize);
\* except queue.Full: pass
AddQaPut ==
    /\ cpc = "add_put"
    /\ summarization_queue' = IF QueueFull THEN summarization_queue
                              ELSE Append(summarization_queue, recent_qa)
    /\ cpc' = "idle"
    /\ c_entry' = NoEntry /\ c_removed' = NoEntry /\ c_tmp' = 0
    /\ UNCHANGED << config, recent_qa, summary, last_summarization_time, token_count,
                    summarization_lock, now, workerLocals, readerLocals,
                    callerHist, workerHist, h_shrunk, h_gone, h_share >>

\* ------------------------------------------------------------------- clear
\* self.recent_qa.clear()
ClearList ==
    /\ cpc = "idle"
    /\ h_clears < MaxClears
    /\ recent_qa' = <<>>
    /\ h_expect' = <<>>
    /\ h_gone' = h_gone \cup Uids(recent_qa)
    /\ h_clears' = h_clears + 1
    /\ h_shrunk' = FALSE
    /\ cpc' = "clear_summary"
    /\ UNCHANGED << config, summary, last_summarization_time, token_count,
                    summarization_lock, summarization_queue, now,
                    c_entry, c_tmp, c_removed, workerLocals, readerLocals,
                    h_count, workerHist, h_share >>

\* self.summary = ""
ClearSummary ==
    /\ cpc = "clear_summary"
    /\ summary' = <<>>
    /\ cpc' = "clear_count"
    /\ UNCHANGED << config, recent_qa, last_summarization_time, token_count,
                    summarization_lock, summarization_queue, now,
                    c_entry, c_tmp, c_removed, workerLocals, readerLocals,
                    callerHist, workerHist, h_shrunk, h_gone, h_share >>

\* self._token_count = 0
ClearCount ==
    /\ cpc = "clear_count"
    /\ token_count' = 0
    /\ h_share' = 0
    /\ cpc' = "idle"
    /\ UNCHANGED << config, recent_qa, summary, last_summarization_time,
                    summarization_lock, summarization_queue, now,
                    c_entry, c_tmp, c_removed, workerLocals, readerLocals,
                    callerHist, workerHist, h_shrunk, h_gone >>

\* ------------------------------------------------- the summarization worker
\* qa_entries = self._summarization_queue.get(timeout=300): a batch is there
\* (queue.Empty only restarts the wait; nothing enqueues the None sentinel)
WorkerGet ==
    /\ wpc = "get"
    /\ summarization_queue # <<>>
    /\ w_batch' = Head(summarization_queue)
    /\ summarization_queue' = Tail(summarization_queue)
    /\ wpc' = "perform"
    /\ UNCHANGED << config, recent_qa, summary, last_summarization_time, token_count,
                    summarization_lock, now, callerLocals, w_summary, w_slice, w_tmp,
                    readerLocals, callerHist, workerHist, h_shrunk, h_gone, h_share >>

\* _perform_summarization: if not qa_entries or not self.solver: return
WorkerNoSolver ==
    /\ wpc = "perform"
    /\ (w_batch = <<>> \/ ~solver)
    /\ wpc' = "get"
    /\ w_batch' = <<>>
    /\ UNCHANGED << config, shared, now, callerLocals, w_summary, w_slice, w_tmp,
                    readerLocals, callerHist, workerHist, h_shrunk, h_gone, h_share >>

\* SystemAnalystSolver.send_summarization: the stripped content of the reply,
\* or None when the request fails in any way
SendSummarizationReplies == { Strip(c) : c \in ApiContents } \cup {None}

\* a _perform_summarization whose with block encloses the collaborator call
WorkerCallUnderLock ==
    /\ wpc = "perform"
    /\ w_batch # <<>> /\ solver
    /\ summarization_lock = "free"
    /\ summarization_lock' = "worker"
    /\ \E reply \in SendSummarizationReplies :
         /\ w_summary' = IF Truthy(reply) THEN reply ELSE None
         /\ w_batch' = IF Truthy(reply) THEN w_batch ELSE <<>>
         /\ wpc' = IF Truthy(reply) THEN "lock" ELSE "get"
         /\ h_successes' = IF Truthy(reply) THEN h_successes + 1 ELSE h_successes
    /\ h_attempts' = h_attempts + 1
    /\ UNCHANGED << config, recent_qa, summary, last_summarization_time, token_count,
                    summarization_queue, now, callerLocals, w_slice, w_tmp,
                    readerLocals, callerHist, h_ver, h_removed, h_pre,
                    h_shrunk, h_gone, h_share >>

\* a worker whose thread ends when the collaborator fails
WorkerCallDiesOnFailure ==
    /\ wpc = "perform"
    /\ w_batch # <<>> /\ solver
    /\ \E reply \in SendSummarizationReplies :
         /\ w_summary' = IF Truthy(reply) THEN reply ELSE None
         /\ w_batch' = IF Truthy(reply) THEN w_batch ELSE <<>>
         /\ wpc' = IF Truthy(reply) THEN "lock" ELSE "stopped"
         /\ h_successes' = IF Truthy(reply) THEN h_successes + 1 ELSE h_successes
    /\ h_attempts' = h_attempts + 1
    /\ UNCHANGED << config, shared, now, callerLocals, w_slice, w_tmp,
                    readerLocals, callerHist, h_ver, h_removed, h_pre,
                    h_shrunk, h_gone, h_share >>

\* a worker that stamps last_summarization_time before it tests the reply
WorkerCallStampsFailure ==
    /\ wpc = "perform"
    /\ w_batch # <<>> /\ solver
    /\ \E reply \in SendSummarizationReplies :
         /\ w_summary' = IF Truthy(reply) THEN reply ELSE None
         /\ w_batch' = IF Truthy(reply) THEN w_batch ELSE <<>>
         /\ wpc' = IF Truthy(reply) THEN "lock" ELSE "get"
         /\ h_successes' = IF Truthy(reply) THEN h_successes + 1 ELSE h_successes
    /\ last_summarization_time' = now
    /\ h_attempts' = h_attempts + 1
    /\ UNCHANGED << config, recent_qa, summary, token_count, summarization_lock,
                    summarization_queue, now, callerLocals, w_slice, w_tmp,
                    readerLocals, callerHist, h_ver, h_removed, h_pre,
                    h_shrunk, h_gone, h_share >>

\* summary = self.solver.send_summarization(prompt); if summary:
WorkerCall ==
    /\ wpc = "perform"
    /\ w_batch # <<>> /\ solver
    /\ \E reply \in SendSummarizationReplies :
         /\ w_summary' = IF Truthy(reply) THEN reply ELSE None
         /\ w_batch' = IF Truthy(reply) THEN w_batch ELSE <<>>
         /\ wpc' = IF Truthy(reply) THEN "lock" ELSE "get"
         /\ h_successes' = IF Truthy(reply) THEN h_successes + 1 ELSE h_successes
    /\ h_attempts' = h_attempts + 1
    /\ UNCHANGED << config, shared, now, callerLocals, w_slice, w_tmp,
                    readerLocals, callerHist, h_ver, h_removed, h_pre,
                    h_shrunk, h_gone, h_share >>

\* with self._summarization_lock: self.summary = summary.strip();
\* self.last_summarization_time = time.time().  No other thread takes the lock,
\* reads both attributes or writes last_summarization_time, so the three
\* statements are one step.
WorkerInstall ==
    /\ wpc = "lock"
    /\ summarization_lock = "free"
    /\ summarization_lock' = "worker"
    /\ summary' = Strip(w_summary)
    /\ last_summarization_time' = now
    /\ h_pre' = recent_qa
    /\ h_ver' = h_ver + 1
    /\ h_removed' = Append(h_removed, {})
    /\ wpc' = "len_check"
    /\ UNCHANGED << config, recent_qa, token_count, summarization_queue, now,
                    callerLocals, w_batch, w_summary, w_slice, w_tmp, readerLocals,
                    callerHist, h_attempts, h_successes, h_shrunk, h_gone, h_share >>

\* if len(self.recent_qa) > keep_count:
WorkerLenCheck ==
    /\ wpc = "len_check"
    /\ wpc' = IF Len(recent_qa) > keep_count THEN "slice" ELSE "unlock"
    /\ UNCHANGED << config, shared, now, callerLocals, w_batch, w_summary, w_slice, w_tmp,
                    readerLocals, callerHist, workerHist, h_shrunk, h_gone, h_share >>

\* self.recent_qa = self.recent_qa[-keep_count:] (the slice is taken)
WorkerSlice ==
    /\ wpc = "slice"
    /\ w_slice' = LastN(recent_qa, keep_count)
    /\ h_removed' = [h_removed EXCEPT ![h_ver] = Uids(recent_qa) \ Uids(w_slice')]
    /\ h_gone' = h_gone \cup (Uids(recent_qa) \ Uids(w_slice'))
    /\ wpc' = "assign"
    /\ UNCHANGED << config, shared, now, callerLocals, w_batch, w_summary, w_tmp,
                    readerLocals, callerHist, h_ver, h_pre, h_attempts, h_successes,
                    h_shrunk, h_share >>

\* self.recent_qa = self.recent_qa[-keep_count:] (the attribute is assigned)
WorkerAssign ==
    /\ wpc = "assign"
    /\ recent_qa' = w_slice
    /\ h_shrunk' = TRUE
    /\ wpc' = "sum"
    /\ UNCHANGED << config, summary, last_summarization_time, token_count,
                    summarization_lock, summarization_queue, now, callerLocals,
                    w_batch, w_summary, w_slice, w_tmp, readerLocals, callerHist,
                    workerHist, h_gone, h_share >>

\* self._token_count = sum(e.tokens for e in self.recent_qa)
WorkerSum ==
    /\ wpc = "sum"
    /\ token_count' = SumTokens(recent_qa)
    /\ h_shrunk' = TRUE
    /\ wpc' = "add_read"
    /\ UNCHANGED << config, recent_qa, summary, last_summarization_time,
                    summarization_lock, summarization_queue, now, callerLocals,
                    w_batch, w_summary, w_slice, w_tmp, readerLocals, callerHist,
                    workerHist, h_gone, h_share >>

\* self._token_count += self._estimate_tokens(self.summary) (the reads)
WorkerAddRead ==
    /\ wpc = "add_read"
    /\ w_tmp' = token_count + EstimateTokens(summary)
    /\ h_share' = EstimateTokens(summary)
    /\ wpc' = "add_write"
    /\ UNCHANGED << config, shared, now, callerLocals, w_batch, w_summary, w_slice,
                    readerLocals, callerHist, workerHist, h_shrunk, h_gone >>

\* self._token_count += self._estimate_tokens(self.summary) (the write)
WorkerAddWrite ==
    /\ wpc = "add_write"
    /\ token_count' = w_tmp
    /\ h_shrunk' = TRUE
    /\ wpc' = "unlock"
    /\ UNCHANGED << config, recent_qa, summary, last_summarization_time,
                    summarization_lock, summarization_queue, now, callerLocals,
                    w_batch, w_summary, w_slice, w_tmp, readerLocals, callerHist,
                    workerHist, h_gone, h_share >>

\* the end of the with block; _perform_summarization returns, task_done(), and
\* the loop is back at get
WorkerUnlock ==
    /\ wpc = "unlock"
    /\ summarization_lock' = "free"
    /\ wpc' = "get"
    /\ w_batch' = <<>> /\ w_summary' = None /\ w_slice' = <<>> /\ w_tmp' = 0
    /\ h_pre' = <<>>
    /\ UNCHANGED << config, recent_qa, summary, last_summarization_time, token_count,
                    summarization_queue, now, callerLocals, readerLocals, callerHist,
                    h_ver, h_removed, h_attempts, h_successes, h_shrunk, h_gone, h_share >>

\* ------------------------------------------ get_context_for_query, get_full_context
\* "\n".join(parts)
RECURSIVE JoinLines(_)
JoinLines(parts) ==
    IF parts = <<>> THEN <<>>
    ELSE IF Len(parts) = 1 THEN parts[1]
    ELSE parts[1] \o <<"\n">> \o JoinLines(Tail(parts))

\* the two lines of every entry: the question, then the answer
RECURSIVE TurnLines(_)
TurnLines(lst) ==
    IF lst = <<>> THEN <<>>
    ELSE << <<"[PO]">> \o Head(lst).question, <<"[Assistant]">> \o Head(lst).answer >>
         \o TurnLines(Tail(lst))

\* a get_context_for_query that renders the newest turn only
RenderQueryLastTurn(smry, turns) ==
    LET parts == (IF smry # <<>> THEN << <<"[Summary]", "\n">> \o smry \o <<"\n">> >> ELSE <<>>)
                 \o (IF turns # <<>>
                     THEN << <<"[Recent]">> >> \o TurnLines(LastN(turns, 1))
                     ELSE <<>>)
    IN IF parts # <<>> THEN JoinLines(parts) ELSE <<>>

\* the body of get_context_for_query for the values it read
RenderQuery(smry, turns) ==
    LET parts == (IF smry # <<>> THEN << <<"[Summary]", "\n">> \o smry \o <<"\n">> >> ELSE <<>>)
                 \o (IF turns # <<>>
                     THEN << <<"[Recent]">> >> \o TurnLines(LastN(turns, QueryCount))
                     ELSE <<>>)
    IN IF parts # <<>> THEN JoinLines(parts) ELSE <<>>

\* the body of get_full_context for the values it read
RenderFull(smry, turns) ==
    LET parts == (IF smry # <<>> THEN << <<"[Meeting]", "\n">> \o smry \o <<"\n">> >> ELSE <<>>)
                 \o (IF turns # <<>>
                     THEN << <<"[History]">> >> \o TurnLines(turns)
                     ELSE <<>>)
    IN IF parts # <<>> THEN JoinLines(parts) ELSE <<"[Empty]">>

\* if self.summary: parts.append(...self.summary...)
ReadSummary ==
    /\ rpc = "idle"
    /\ \E k \in {"query", "full"} : r_kind' = k
    /\ r_summary' = summary
    /\ h_rver' = h_ver
    /\ h_rturns' = <<>>
    /\ r_result' = None
    /\ rpc' = "turns"
    /\ UNCHANGED << config, shared, now, callerLocals, workerLocals, callerHist,
                    workerHist, h_shrunk, h_gone, h_share >>

\* if self.recent_qa: ... for entry in self.recent_qa[-4:] (or self.recent_qa);
\* return "\n".join(parts)
ReadTurns ==
    /\ rpc = "turns"
    /\ h_rturns' = IF r_kind = "query" THEN LastN(recent_qa, QueryCount) ELSE recent_qa
    /\ r_result' = IF r_kind = "query" THEN RenderQuery(r_summary, recent_qa)
                   ELSE RenderFull(r_summary, recent_qa)
    /\ rpc' = "done"
    /\ UNCHANGED << config, shared, now, callerLocals, workerLocals, r_kind, r_summary,
                    h_rver, callerHist, workerHist, h_shrunk, h_gone, h_share >>

\* the caller has the text
ReadReturn ==
    /\ rpc = "done"
    /\ rpc' = "idle"
    /\ r_kind' = "none" /\ r_summary' = <<>> /\ r_result' = None
    /\ h_rver' = 0 /\ h_rturns' = <<>>
    /\ UNCHANGED << config, shared, now, callerLocals, workerLocals, callerHist,
                    workerHist, h_shrunk, h_gone, h_share >>

\* ------------------------------------------------ AudioTranscriberRealtime
\* One listener thread calls start_recording (on_press of run_daemon), one
\* thread at a time runs stop_recording (process_audio_question), every session
\* has its ffmpeg process, its WebSocketApp with its receiver thread and its
\* sender thread.  Sessions are numbered from 1; 0 stands for None.
Sessions == 1..MaxSessions

\* a Results message: is_final and the transcript of its first alternative
Events == { [final |-> f, transcript |-> t] : f \in BOOLEAN, t \in utterance }

\* " ".join(parts).strip() of the parts stop_recording collected
FinalText(parts) == Strip(JoinSpace(parts))

\* history kept with a write of the accumulator that is not _on_message's:
\* the events applied since the accumulator was last empty, and whether the
\* accumulator is exactly what these events made of an empty one
EventsAfterWrite(ch, pa) ==
    IF ch = final_chunks /\ pa = partial THEN h_events ELSE <<>>

ExactAfterWrite(ch, pa) ==
    IF ch = final_chunks /\ pa = partial THEN h_exact ELSE (ch = <<>> /\ pa = <<>>)

\* AudioTranscriberRealtime.__init__
Typers == 1..MaxTypers

\* typing_paused = False; typing_active = False; no typing thread yet
InitTyping ==
    /\ typing_active = FALSE
    /\ typing_paused = FALSE
    /\ tpc = [t \in Typers |-> "none"]
    /\ t_left = [t \in Typers |-> 0]
    /\ h_toggles = 0

\* ClipboardSender.__init__; no stream and no call in progress
InitTelegram ==
    /\ tg_now = StartTime
    /\ last_sent_hash = <<>> /\ last_sent_time = 0 /\ delivered = <<>>
    /\ gpc = "idle" /\ g_message = <<>> /\ g_h = 0 /\ g_now = 0 /\ g_ok = TRUE
    /\ g_left = 0 /\ g_stream = FALSE
    /\ qpc = "idle" /\ buffer = <<>> /\ full = <<>> /\ last_send = 0
    /\ h_pieces = 0 /\ h_flushed = <<>>
    /\ h_ok_text = <<>> /\ h_ok_time = 0 /\ h_prev_text = <<>> /\ h_prev_ok = TRUE
    /\ h_refused = FALSE /\ h_direct = 0

InitRecorder ==
    /\ is_recording = FALSE
    /\ ffmpeg_process = 0
    /\ proc = [s \in Sessions |-> "none"]
    /\ ws_app = 0
    /\ conn = [s \in Sessions |-> "none"]
    /\ send_thread = 0
    /\ sender = [s \in Sessions |-> "none"]
    /\ ws_connected = FALSE
    /\ stop_sending = FALSE
    /\ transcript_lock = "free"
    /\ final_chunks = <<>>
    /\ partial = <<>>
    /\ kpc = "idle" /\ k_sess = 0
    /\ spc = "idle" /\ s_parts = <<>> /\ s_text = <<>> /\ s_result = None
    /\ h_sessions = 0 /\ h_stops = 0 /\ h_msgs = 0
    /\ h_last = [final |-> FALSE, transcript |-> <<>>]
    /\ h_events = <<>> /\ h_exact = TRUE
    /\ h_read_events = <<>> /\ h_read_exact = TRUE
    /\ h_rd_chunks = <<>> /\ h_rd_partial = <<>>
    /\ stop_threads = 0 /\ h_failed = FALSE /\ h_target = 0
    /\ apc = "none" /\ a_sess = 0 /\ a_pipe = 0 /\ frames = <<>> /\ h_chunks = 0
    /\ h_exit_open = FALSE /\ h_send_failed = FALSE /\ h_after_fail = FALSE
    /\ h_bad = <<>> /\ h_after_bad = FALSE
    /\ h_chunk_src = <<>> /\ h_partial_src = 0 /\ h_rd_src = {} /\ h_apart = TRUE
    /\ num_lock_pressed = FALSE /\ ctrl_pressed = FALSE /\ h_down = {}
    /\ InitTyping
    /\ InitTelegram

\* ---------------------------------------------------------- start_recording
\* a start_recording that resets _final_chunks before it tests is_recording
StartCallResetsFirst ==
    /\ kpc = "idle"
    /\ is_recording \/ h_sessions < MaxSessions
    /\ final_chunks' = <<>>
    /\ h_events' = EventsAfterWrite(<<>>, partial)
    /\ h_exact' = ExactAfterWrite(<<>>, partial)
    /\ kpc' = IF is_recording THEN "returned_early" ELSE "set_flag"
    /\ h_sessions' = IF is_recording THEN h_sessions ELSE h_sessions + 1
    /\ k_sess' = IF is_recording THEN 0 ELSE h_sessions + 1
    /\ UNCHANGED << utterance, recFlags, recProc, recWs, recSend, partial,
                    transcript_lock, stopLocals, h_stops, h_msgs, h_last, readHist >>

\* if self.is_recording: return
StartCall ==
    /\ kpc = "idle"
    /\ is_recording \/ h_sessions < MaxSessions
    /\ kpc' = IF is_recording THEN "returned_early" ELSE "set_flag"
    /\ h_sessions' = IF is_recording THEN h_sessions ELSE h_sessions + 1
    /\ k_sess' = IF is_recording THEN 0 ELSE h_sessions + 1
    /\ UNCHANGED << utterance, recFlags, recProc, recWs, recSend, recAcc, stopLocals,
                    h_stops, h_msgs, h_last, h_events, h_exact, readHist >>

\* start_recording has returned at its first line; on_press returns
StartReturn ==
    /\ kpc = "returned_early"
    /\ kpc' = "idle"
    /\ UNCHANGED << utterance, recFlags, recProc, recWs, recSend, recAcc, k_sess,
                    stopLocals, recHist >>

\* self.is_recording = True
StartSetFlag ==
    /\ kpc = "set_flag"
    /\ is_recording' = TRUE
    /\ kpc' = "reset_chunks"
    /\ UNCHANGED << utterance, stop_sending, ws_connected, recProc, recWs, recSend,
                    recAcc, k_sess, stopLocals, recHist >>

\* self._final_chunks = []
StartResetChunks ==
    /\ kpc = "reset_chunks"
    /\ final_chunks' = <<>>
    /\ h_events' = EventsAfterWrite(<<>>, partial)
    /\ h_exact' = ExactAfterWrite(<<>>, partial)
    /\ kpc' = "reset_partial"
    /\ UNCHANGED << utterance, recFlags, recProc, recWs, recSend, partial,
                    transcript_lock, k_sess, stopLocals, h_sessions, h_stops, h_msgs, h_last,
                    readHist >>

\* self._partial = ""
StartResetPartial ==
    /\ kpc = "reset_partial"
    /\ partial' = <<>>
    /\ h_events' = EventsAfterWrite(final_chunks, <<>>)
    /\ h_exact' = ExactAfterWrite(final_chunks, <<>>)
    /\ kpc' = "clear_stop"
    /\ UNCHANGED << utterance, recFlags, recProc, recWs, recSend, final_chunks,
                    transcript_lock, k_sess, stopLocals, h_sessions, h_stops, h_msgs, h_last,
                    readHist >>

\* self._stop_sending.clear()
StartClearStop ==
    /\ kpc = "clear_stop"
    /\ stop_sending' = FALSE
    /\ kpc' = "spawn"
    /\ UNCHANGED << utterance, is_recording, ws_connected, recProc, recWs, recSend,
                    recAcc, k_sess, stopLocals, recHist >>

\* self.ffmpeg_process = subprocess.Popen(...)
StartSpawn ==
    /\ kpc = "spawn"
    /\ ffmpeg_process' = k_sess
    /\ proc' = [proc EXCEPT ![k_sess] = "running"]
    /\ kpc' = "ws"
    /\ UNCHANGED << utterance, recFlags, recWs, recSend, recAcc, k_sess, stopLocals,
                    recHist >>

\* except Exception: self.is_recording = False; return
StartSpawnFails ==
    /\ kpc = "spawn"
    /\ is_recording' = FALSE
    /\ kpc' = "idle" /\ k_sess' = 0
    /\ UNCHANGED << utterance, stop_sending, ws_connected, recProc, recWs, recSend,
                    recAcc, stopLocals, recHist >>

\* self._ws_app = websocket.WebSocketApp(...); self._ws_thread = ...; start()
StartWs ==
    /\ kpc = "ws"
    /\ ws_app' = k_sess
    /\ conn' = [conn EXCEPT ![k_sess] = "connecting"]
    /\ kpc' = "wait"
    /\ UNCHANGED << utterance, recFlags, recProc, recSend, recAcc, k_sess, stopLocals,
                    recHist >>

\* self._ws_connected.wait(3) returns True
StartWaitOk ==
    /\ kpc = "wait"
    /\ ws_connected
    /\ kpc' = "sender"
    /\ UNCHANGED << utterance, recFlags, recProc, recWs, recSend, recAcc, k_sess,
                    stopLocals, recHist >>

\* a start_recording that returns after the timeout with is_recording still set
StartWaitTimeoutKeepsFlag ==
    /\ kpc = "wait"
    /\ ~ws_connected
    /\ proc' = IF ffmpeg_process # 0 /\ proc[ffmpeg_process] = "running"
               THEN [proc EXCEPT ![ffmpeg_process] = "exited"] ELSE proc
    /\ kpc' = "idle" /\ k_sess' = 0
    /\ UNCHANGED << utterance, recFlags, ffmpeg_process, recWs,
                    recSend, recAcc, stopLocals, recHist >>

\* if not self._ws_connected.wait(3): self.ffmpeg_process.kill();
\* self.is_recording = False; return
StartWaitTimeout ==
    /\ kpc = "wait"
    /\ ~ws_connected
    /\ proc' = IF ffmpeg_process # 0 /\ proc[ffmpeg_process] = "running"
               THEN [proc EXCEPT ![ffmpeg_process] = "exited"] ELSE proc
    /\ is_recording' = FALSE
    /\ kpc' = "idle" /\ k_sess' = 0
    /\ UNCHANGED << utterance, stop_sending, ws_connected, ffmpeg_process, recWs,
                    recSend, recAcc, stopLocals, recHist >>

\* self._send_thread = threading.Thread(target=send_audio, ...); start()
StartSender ==
    /\ kpc = "sender"
    /\ send_thread' = k_sess
    /\ sender' = [sender EXCEPT ![k_sess] = "running"]
    /\ kpc' = "idle" /\ k_sess' = 0
    /\ UNCHANGED << utterance, recFlags, recProc, recWs, recAcc, stopLocals, recHist >>

\* ------------------------------------------------ the threads of a session
\* run_ws: the connection opens, _on_open sets the event
WsOpen(s) ==
    /\ conn[s] = "connecting"
    /\ conn' = [conn EXCEPT ![s] = "open"]
    /\ ws_connected' = TRUE
    /\ UNCHANGED << utterance, is_recording, stop_sending, recProc, ws_app, recSend,
                    recAcc, listenerLocals, stopLocals, recHist >>

\* run_ws: the connection fails or is closed (by the server, by an error or
\* after close()); _on_error and _on_close clear the event, run_forever returns
WsEnd(s) ==
    /\ conn[s] \in {"connecting", "open", "closing", "aborting"}
    /\ conn' = [conn EXCEPT ![s] = "closed"]
    /\ ws_connected' = FALSE
    /\ UNCHANGED << utterance, is_recording, stop_sending, recProc, ws_app, recSend,
                    recAcc, listenerLocals, stopLocals, recHist >>

\* an _on_message whose final branch leaves _partial as it is
OnMessageKeepsPartial(ev) ==
    LET text == Strip(ev.transcript)
    IN /\ final_chunks' = IF ev.final /\ text # <<>>
                          THEN Append(final_chunks, text) ELSE final_chunks
       /\ partial' = IF ev.final THEN partial ELSE text

\* The body of _on_message for a Results message with an alternative
OnMessage(ev) ==
    LET text == Strip(ev.transcript)
    IN /\ final_chunks' = IF ev.final /\ text # <<>>
                          THEN Append(final_chunks, text) ELSE final_chunks
       /\ partial' = IF ev.final THEN <<>> ELSE text

\* _on_message, called by the receiver thread of session s for a frame that
\* arrived before the connection was torn down
WsMessage(s) ==
    /\ conn[s] \in {"open", "closing"}
    /\ transcript_lock = "free"
    /\ h_msgs < MaxEvents
    /\ \E ev \in Events :
         /\ OnMessage(ev)
         /\ h_last' = ev
         /\ h_events' = IF final_chunks = <<>> /\ partial = <<>>
                        THEN <<ev>> ELSE Append(h_events, ev)
         /\ h_exact' = IF final_chunks = <<>> /\ partial = <<>> THEN TRUE ELSE h_exact
    /\ h_msgs' = h_msgs + 1
    /\ UNCHANGED << utterance, recFlags, recProc, recWs, recSend, transcript_lock,
                    listenerLocals, stopLocals, h_sessions, h_stops, readHist >>

\* An inbound text frame, by what _on_message looks at: json.loads accepts it,
\* the value is a dict, its "type", the length of channel.alternatives (0 also
\* when "channel" or "alternatives" is missing), is_final and the transcript
\* of the first alternative
Messages ==
    { m \in [valid : BOOLEAN, isdict : BOOLEAN, type : {"Results", "Metadata"},
              alts : 0..1, final : BOOLEAN, transcript : utterance] :
        m.isdict => m.valid }

\* the messages that are not valid JSON, not a JSON object, of another type
\* than Results, or without an alternative
Malformed ==
    { m \in Messages :
        ~m.valid \/ ~m.isdict \/ m.type # "Results" \/ m.alts = 0 }

\* an _on_message that does not look at the type of the message
ReachesUpdateAnyType(m) ==
    /\ m.valid
    /\ m.isdict
    /\ m.alts > 0

\* _on_message reaches its locked update: json.loads did not raise,
\* isinstance(data, dict), data.get("type") == "Results", and alts is not empty
ReachesUpdate(m) ==
    /\ m.valid
    /\ m.isdict
    /\ m.type = "Results"
    /\ m.alts > 0

\* _on_message, called by the receiver thread of session s for a message of
\* Malformed
WsBadMessage(s) ==
    /\ conn[s] \in {"open", "closing"}
    /\ Len(h_bad) < MaxBad
    /\ \E m \in Malformed :
         /\ IF ReachesUpdate(m)
            THEN /\ transcript_lock = "free"
                 /\ OnMessage([final |-> m.final, transcript |-> m.transcript])
            ELSE UNCHANGED << final_chunks, partial >>
         /\ h_bad' = Append(h_bad, m)
    /\ UNCHANGED << utterance, recFlags, recProc, recWs, recSend, transcript_lock,
                    listenerLocals, stopLocals, recHist, h_after_bad >>

\* the ffmpeg process ends on its own
ProcExit(s) ==
    /\ proc[s] = "running"
    /\ proc' = [proc EXCEPT ![s] = "exited"]
    /\ UNCHANGED << utterance, recFlags, ffmpeg_process, recWs, recSend, recAcc,
                    listenerLocals, stopLocals, recHist >>

\* send_audio leaves its loop (the stop event is set, the pipe of
\* self.ffmpeg_process is at its end, or send raised) and returns
SenderExit(s) ==
    /\ sender[s] = "running"
    /\ \/ stop_sending
       \/ ffmpeg_process = 0
       \/ proc[ffmpeg_process] # "running"
       \/ (ws_app # 0 /\ ws_connected /\ conn[ws_app] # "open")
    /\ sender' = [sender EXCEPT ![s] = "done"]
    /\ UNCHANGED << utterance, recFlags, recProc, recWs, send_thread, recAcc,
                    listenerLocals, stopLocals, recHist >>

\* -------------------------------------------- send_audio, statement by statement
\* what send_audio does not write
senderFrame == << utterance, recFlags, recProc, recWs, send_thread, recAcc,
                 listenerLocals, stopLocals, recHist >>

\* while not self._stop_sending.is_set(): if not self.ffmpeg_process or not
\* self.ffmpeg_process.stdout: break; the read is entered
SendLoopTest ==
    /\ apc = "loop"
    /\ apc' = IF stop_sending \/ ffmpeg_process = 0 THEN "close_stream" ELSE "read"
    /\ a_pipe' = IF stop_sending \/ ffmpeg_process = 0 THEN a_pipe ELSE ffmpeg_process
    /\ h_exit_open' = IF stop_sending \/ ffmpeg_process = 0
                      THEN (ws_app # 0 /\ conn[ws_app] = "open") ELSE h_exit_open
    /\ UNCHANGED << senderFrame, sender, a_sess, frames, h_chunks, h_send_failed,
                    h_after_fail >>

\* chunk = self.ffmpeg_process.stdout.read(CHUNK): a chunk while the process
\* writes, b"" at the end of the pipe; if not chunk: break
SendRead ==
    /\ apc = "read"
    /\ \/ /\ proc[a_pipe] = "running"
          /\ h_chunks < MaxChunks
          /\ h_chunks' = h_chunks + 1
          /\ apc' = "send"
          /\ UNCHANGED h_exit_open
       \/ /\ proc[a_pipe] # "running"
          /\ apc' = "close_stream"
          /\ h_exit_open' = (ws_app # 0 /\ conn[ws_app] = "open")
          /\ UNCHANGED h_chunks
    /\ UNCHANGED << senderFrame, sender, a_sess, a_pipe, frames, h_send_failed,
                    h_after_fail >>

\* a send_audio whose failure also tears the connection down
SendReadFailsClosesConnection ==
    /\ apc = "read"
    /\ apc' = "done"
    /\ sender' = [sender EXCEPT ![a_sess] = "done"]
    /\ h_send_failed' = TRUE
    /\ conn' = [conn EXCEPT ![a_sess] = "closed"]
    /\ ws_connected' = FALSE
    /\ UNCHANGED << utterance, is_recording, stop_sending, recProc, ws_app, send_thread,
                    recAcc, listenerLocals, stopLocals, recHist, a_sess, a_pipe, frames,
                    h_chunks, h_exit_open, h_after_fail >>

\* the read raises: the outer except Exception: pass ends send_audio
SendReadFails ==
    /\ apc = "read"
    /\ apc' = "done"
    /\ sender' = [sender EXCEPT ![a_sess] = "done"]
    /\ h_send_failed' = TRUE
    /\ UNCHANGED << senderFrame, a_sess, a_pipe, frames, h_chunks, h_exit_open,
                    h_after_fail >>

\* if self._ws_app and self._ws_connected.is_set(): self._ws_app.send(chunk,
\* opcode=ABNF.OPCODE_BINARY); except Exception: break.  send raises on a
\* connection that is not open, and may raise on one that is.
SendFrame ==
    /\ apc = "send"
    /\ IF ws_app # 0 /\ ws_connected
       THEN \/ /\ conn[ws_app] = "open"
               /\ frames' = Append(frames, "audio")
               /\ apc' = "loop"
               /\ UNCHANGED << h_exit_open, h_send_failed >>
            \/ /\ apc' = "close_stream"
               /\ h_exit_open' = (conn[ws_app] = "open")
               /\ h_send_failed' = TRUE
               /\ UNCHANGED frames
       ELSE /\ apc' = "loop"
            /\ UNCHANGED << frames, h_exit_open, h_send_failed >>
    /\ UNCHANGED << senderFrame, sender, a_sess, a_pipe, h_chunks, h_after_fail >>

\* if self._ws_app and self._ws_connected.is_set(): self._ws_app.send(
\* json.dumps({"type": "CloseStream"})); time.sleep(0.5); except Exception:
\* pass; send_audio returns
SendCloseStream ==
    /\ apc = "close_stream"
    /\ IF ws_app # 0 /\ ws_connected
       THEN \/ /\ conn[ws_app] = "open"
               /\ frames' = Append(frames, "CloseStream")
               /\ UNCHANGED h_send_failed
            \/ /\ h_send_failed' = TRUE
               /\ UNCHANGED frames
       ELSE UNCHANGED << frames, h_send_failed >>
    /\ apc' = "done"
    /\ sender' = [sender EXCEPT ![a_sess] = "done"]
    /\ UNCHANGED << senderFrame, a_sess, a_pipe, h_chunks, h_exit_open, h_after_fail >>

\* ----------------------------------------------------------- stop_recording
\* a stop_recording that sets the stop event before it tests is_recording
StopNotRecordingSetsEvent ==
    /\ spc = "idle"
    /\ ~is_recording
    /\ stop_sending' = TRUE
    /\ s_result' = None
    /\ spc' = "returned_early"
    /\ UNCHANGED << utterance, is_recording, ws_connected, recProc, recWs, recSend,
                    recAcc, listenerLocals, s_parts, s_text, recHist >>

\* if not self.is_recording: return None
StopNotRecording ==
    /\ spc = "idle"
    /\ ~is_recording
    /\ s_result' = None
    /\ spc' = "returned_early"
    /\ UNCHANGED << utterance, recFlags, recProc, recWs, recSend, recAcc,
                    listenerLocals, s_parts, s_text, recHist >>

\* stop_recording is called while is_recording is true
StopCall ==
    /\ spc = "idle"
    /\ is_recording
    /\ spc' = "set_flag"
    /\ UNCHANGED << utterance, recFlags, recProc, recWs, recSend, recAcc,
                    listenerLocals, s_parts, s_text, s_result, recHist >>

\* self.is_recording = False
StopSetFlag ==
    /\ spc = "set_flag"
    /\ is_recording' = FALSE
    /\ spc' = "terminate"
    /\ UNCHANGED << utterance, stop_sending, ws_connected, recProc, recWs, recSend,
                    recAcc, listenerLocals, s_parts, s_text, s_result, recHist >>

\* if self.ffmpeg_process: terminate(); wait(timeout=2); kill() when that raises
StopTerminate ==
    /\ spc = "terminate"
    /\ proc' = IF ffmpeg_process # 0 /\ proc[ffmpeg_process] = "running"
               THEN [proc EXCEPT ![ffmpeg_process] = "exited"] ELSE proc
    /\ spc' = "set_stop"
    /\ UNCHANGED << utterance, recFlags, ffmpeg_process, recWs, recSend, recAcc,
                    listenerLocals, s_parts, s_text, s_result, recHist >>

\* self._stop_sending.set(); the join of the sender and the sleep are bounded
\* waits that change nothing
StopSetStop ==
    /\ spc = "set_stop"
    /\ stop_sending' = TRUE
    /\ spc' = "close_ws"
    /\ UNCHANGED << utterance, is_recording, ws_connected, recProc, recWs, recSend,
                    recAcc, listenerLocals, s_parts, s_text, s_result, recHist >>

\* if self._ws_app: self._ws_app.close(); the join of the receiver thread is a
\* bounded wait.  An open connection may still deliver the frames that have
\* arrived; one that was not open yet delivers none.
StopCloseWs ==
    /\ spc = "close_ws"
    /\ conn' = IF ws_app # 0 /\ conn[ws_app] = "open"
               THEN [conn EXCEPT ![ws_app] = "closing"]
               ELSE IF ws_app # 0 /\ conn[ws_app] = "connecting"
               THEN [conn EXCEPT ![ws_app] = "aborting"]
               ELSE conn
    /\ spc' = "read_chunks"
    /\ UNCHANGED << utterance, recFlags, recProc, ws_app, recSend, recAcc,
                    listenerLocals, s_parts, s_text, s_result, recHist >>

\* with self._transcript_lock: parts = list(self._final_chunks)
StopReadChunks ==
    /\ spc = "read_chunks"
    /\ transcript_lock = "free"
    /\ transcript_lock' = "stop"
    /\ s_parts' = final_chunks
    /\ h_rd_chunks' = final_chunks
    /\ h_read_events' = h_events
    /\ h_read_exact' = h_exact
    /\ spc' = "test_partial"
    /\ UNCHANGED << utterance, recFlags, recProc, recWs, recSend, final_chunks, partial,
                    listenerLocals, s_text, s_result, h_sessions, h_stops, h_msgs, h_last,
                    h_events, h_exact, h_rd_partial >>

\* if self._partial:
StopTestPartial ==
    /\ spc = "test_partial"
    /\ spc' = IF partial # <<>> THEN "append_partial" ELSE "join"
    /\ h_rd_partial' = <<>>
    /\ h_read_exact' = (h_read_exact /\ h_events = h_read_events /\ h_exact)
    /\ UNCHANGED << utterance, recFlags, recProc, recWs, recSend, recAcc,
                    listenerLocals, s_parts, s_text, s_result, h_sessions, h_stops,
                    h_msgs, h_last, h_events, h_exact, h_read_events, h_rd_chunks >>

\* a stop_recording that leaves the pending partial out of the transcript
StopAppendPartialSkips ==
    /\ spc = "append_partial"
    /\ h_rd_partial' = partial
    /\ h_read_exact' = (h_read_exact /\ h_events = h_read_events /\ h_exact)
    /\ spc' = "join"
    /\ UNCHANGED << utterance, recFlags, recProc, recWs, recSend, recAcc,
                    listenerLocals, s_parts, s_text, s_result, h_sessions, h_stops,
                    h_msgs, h_last, h_events, h_exact, h_read_events, h_rd_chunks >>

\* parts.append(self._partial)
StopAppendPartial ==
    /\ spc = "append_partial"
    /\ s_parts' = Append(s_parts, partial)
    /\ h_rd_partial' = partial
    /\ h_read_exact' = (h_read_exact /\ h_events = h_read_events /\ h_exact)
    /\ spc' = "join"
    /\ UNCHANGED << utterance, recFlags, recProc, recWs, recSend, recAcc,
                    listenerLocals, s_text, s_result, h_sessions, h_stops, h_msgs,
                    h_last, h_events, h_exact, h_read_events, h_rd_chunks >>

\* final_text = " ".join(parts).strip(); the lock is released
StopJoin ==
    /\ spc = "join"
    /\ s_text' = FinalText(s_parts)
    /\ transcript_lock' = "free"
    /\ spc' = "reset_chunks"
    /\ UNCHANGED << utterance, recFlags, recProc, recWs, recSend, final_chunks, partial,
                    listenerLocals, s_parts, s_result, recHist >>

\* self._final_chunks = []
StopResetChunks ==
    /\ spc = "reset_chunks"
    /\ final_chunks' = <<>>
    /\ h_events' = EventsAfterWrite(<<>>, partial)
    /\ h_exact' = ExactAfterWrite(<<>>, partial)
    /\ spc' = "reset_partial"
    /\ UNCHANGED << utterance, recFlags, recProc, recWs, recSend, partial,
                    transcript_lock, listenerLocals, s_parts, s_text, s_result,
                    h_sessions, h_stops, h_msgs, h_last, readHist >>

\* self._partial = ""; return final_text or None
StopResetPartial ==
    /\ spc = "reset_partial"
    /\ partial' = <<>>
    /\ h_events' = EventsAfterWrite(final_chunks, <<>>)
    /\ h_exact' = ExactAfterWrite(final_chunks, <<>>)
    /\ s_result' = IF s_text # <<>> THEN s_text ELSE None
    /\ h_stops' = h_stops + 1
    /\ spc' = "returned"
    /\ UNCHANGED << utterance, recFlags, recProc, recWs, recSend, final_chunks,
                    transcript_lock, listenerLocals, s_parts, s_text,
                    h_sessions, h_msgs, h_last, readHist >>

\* process_audio_question has the result; its thread ends
StopDone ==
    /\ spc \in {"returned", "returned_early"}
    /\ spc' = "idle"
    /\ s_parts' = <<>> /\ s_text' = <<>> /\ s_result' = None
    /\ h_read_events' = <<>> /\ h_read_exact' = TRUE
    /\ h_rd_chunks' = <<>> /\ h_rd_partial' = <<>>
    /\ UNCHANGED << utterance, recFlags, recProc, recWs, recSend, recAcc,
                    listenerLocals, h_sessions, h_stops, h_msgs, h_last, h_events,
                    h_exact >>

\* ------------------------------------------------------------ specification
AddQa == \/ AddQaAppend \/ AddQaIncRead \/ AddQaIncWrite \/ AddQaWhile \/ AddQaPop
         \/ AddQaDecRead \/ AddQaDecWrite \/ AddQaCheck \/ AddQaPut

Clear == ClearList \/ ClearSummary \/ ClearCount

Worker == \/ WorkerGet \/ WorkerNoSolver \/ WorkerCall \/ WorkerInstall
          \/ WorkerLenCheck \/ WorkerSlice
          \/ WorkerAssign \/ WorkerSum \/ WorkerAddRead \/ WorkerAddWrite
          \/ WorkerUnlock

Reader == ReadSummary \/ ReadTurns \/ ReadReturn

StartRecording == \/ StartCall \/ StartReturn \/ StartSetFlag
                  \/ StartResetChunks \/ StartResetPartial
                  \/ StartClearStop \/ StartSpawn \/ StartSpawnFails \/ StartWs
                  \/ StartWaitOk \/ StartWaitTimeout \/ StartSender

SessionThreads == \E s \in Sessions :
                     WsOpen(s) \/ WsEnd(s) \/ WsMessage(s) \/ ProcExit(s) \/ SenderExit(s)

SendAudio == SendLoopTest \/ SendRead \/ SendReadFails \/ SendFrame \/ SendCloseStream

StopRecording == \/ StopNotRecording \/ StopCall \/ StopSetFlag \/ StopTerminate
                 \/ StopSetStop \/ StopCloseWs \/ StopReadChunks \/ StopTestPartial
                 \/ StopAppendPartial \/ StopJoin \/ StopResetChunks
                 \/ StopResetPartial \/ StopDone

\* history: a call of the caller thread and a locked section of the worker
\* have been in progress at the same time
Overlapped == h_overlap' = (h_overlap \/ (summarization_lock' = "worker" /\ cpc' # "idle"))

\* the context manager of a process whose transcriber is idle
InitManager == InitCtx /\ InitRecorder /\ utterance = {}

\* process_analyst_question calls add_qa while fewer than MaxQueue batches wait
CalledWhenQueueShort == h_count' # h_count => Len(summarization_queue) < MaxQueue

\* add_qa against the summarization worker
NextCtx ==
    (AddQa \/ Worker \/ Tick) /\ Overlapped /\ CalledWhenQueueShort /\ UNCHANGED recvars

SpecCtx == InitManager /\ [][NextCtx]_vars

\* add_qa and clear against the summarization worker, within one
\* min_summarization_interval of the clock
NextClear ==
    (AddQa \/ Clear \/ Worker) /\ Overlapped /\ CalledWhenQueueShort /\ UNCHANGED recvars

SpecClear == InitManager /\ [][NextClear]_vars

\* the readers against add_qa and the summarization worker
NextRead ==
    /\ AddQa \/ Worker \/ Reader \/ Tick
    /\ Overlapped /\ CalledWhenQueueShort /\ UNCHANGED recvars

\* run_daemon's manager: the solver is set, and the buffer is larger than what
\* a collapse retains
InitRead == InitManager /\ solver /\ max_recent_entries > keep_count

SpecRead == InitRead /\ [][NextRead]_vars

\* the worker thread is scheduled, and send_summarization returns (its request
\* has timeout=30)
NextWorker == Worker /\ Overlapped /\ CalledWhenQueueShort /\ UNCHANGED recvars

SpecCtxFair == SpecCtx /\ WF_vars(NextWorker)

\* add_qa against the summarization worker, called whatever the queue holds
NextQueue == (AddQa \/ Worker \/ Tick) /\ Overlapped /\ UNCHANGED recvars

SpecQueue == InitManager /\ [][NextQueue]_vars

\* a manager at rest that holds up to max_recent_entries turns, with or without
\* a summary that was installed before the buffer outgrew what a collapse keeps
InitRender ==
    /\ max_recent_entries = 5 /\ keep_count = 4
    /\ summarization_threshold \in ThresholdChoices
    /\ solver = TRUE
    /\ \E n \in 0..max_recent_entries : \E f \in [1..n -> QAInputs] :
         recent_qa = [i \in 1..n |-> [question |-> f[i][1], answer |-> f[i][2],
                                       tokens |-> EstimateTokens(f[i][1] \o f[i][2]),
                                       uid |-> i]]
    /\ summary \in {<<>>} \cup { r \in SendSummarizationReplies : Truthy(r) }
    /\ last_summarization_time = IF summary = <<>> THEN 0 ELSE StartTime
    /\ token_count = SumTokens(recent_qa)
    /\ summarization_lock = "free"
    /\ summarization_queue = <<>>
    /\ now = StartTime
    /\ cpc = "idle" /\ c_entry = NoEntry /\ c_tmp = 0 /\ c_removed = NoEntry
    /\ wpc = "get" /\ w_batch = <<>> /\ w_summary = None /\ w_slice = <<>> /\ w_tmp = 0
    /\ rpc = "idle" /\ r_kind = "none" /\ r_summary = <<>> /\ r_result = None
    /\ h_count = Len(recent_qa) /\ h_expect = recent_qa /\ h_shrunk = FALSE /\ h_clears = 0
    /\ h_ver = (IF summary = <<>> THEN 0 ELSE 1)
    /\ h_removed = (IF summary = <<>> THEN <<>> ELSE << {} >>)
    /\ h_gone = {} /\ h_share = 0
    /\ h_pre = <<>> /\ h_attempts = h_ver /\ h_successes = h_ver
    /\ h_rver = 0 /\ h_rturns = <<>>
    /\ h_overlap = FALSE
    /\ InitRecorder /\ utterance = {}

\* get_context_for_query and get_full_context called on a manager at rest
NextRender == Reader /\ Overlapped /\ UNCHANGED recvars

SpecRender == InitRender /\ [][NextRender]_vars

\* a manager whose threshold the first turn of 5 tokens exceeds, with the
\* solver set and a buffer larger than what a collapse retains
InitSnap ==
    /\ max_recent_entries = 3 /\ keep_count = 2
    /\ summarization_threshold = 4
    /\ solver = TRUE
    /\ recent_qa = <<>>
    /\ summary = <<>>
    /\ last_summarization_time = 0
    /\ token_count = 0
    /\ summarization_lock = "free"
    /\ summarization_queue = <<>>
    /\ now = StartTime
    /\ cpc = "idle" /\ c_entry = NoEntry /\ c_tmp = 0 /\ c_removed = NoEntry
    /\ wpc = "get" /\ w_batch = <<>> /\ w_summary = None /\ w_slice = <<>> /\ w_tmp = 0
    /\ rpc = "idle" /\ r_kind = "none" /\ r_summary = <<>> /\ r_result = None
    /\ h_count = 0 /\ h_expect = <<>> /\ h_shrunk = FALSE /\ h_clears = 0
    /\ h_ver = 0 /\ h_removed = <<>> /\ h_gone = {} /\ h_share = 0
    /\ h_pre = <<>> /\ h_attempts = 0 /\ h_successes = 0
    /\ h_rver = 0 /\ h_rturns = <<>>
    /\ h_overlap = FALSE
    /\ InitRecorder /\ utterance = {}

\* add_qa called while the worker is inside send_summarization, whatever the
\* queue holds
SpecSnap == InitSnap /\ [][NextQueue]_vars

\* the transcriber of a process whose context manager is idle
InitRec ==
    /\ InitCtx /\ solver /\ max_recent_entries = 3
    /\ InitRecorder /\ utterance \in Utterances

\* one recording session with its messages, start_recording and stop_recording
\* called at any time
NextRec ==
    /\ StartRecording \/ SessionThreads \/ StopRecording
    /\ h_sessions' <= RecSessions
    /\ UNCHANGED keyvars
    /\ UNCHANGED sendvars
    /\ UNCHANGED msgvars
    /\ UNCHANGED srcvars
    /\ UNCHANGED hotvars
    /\ UNCHANGED dmnvars
    /\ UNCHANGED ctxvars

SpecRec == InitRec /\ [][NextRec]_vars

\* on_release: threading.Thread(target=process_audio_question).start(); the
\* listener thread is not inside on_press.  One such thread at a time is
\* followed.
KeyRelease ==
    /\ kpc = "idle"
    /\ spc = "idle"
    /\ stop_threads = 0
    /\ stop_threads' = 1
    /\ UNCHANGED << utterance, recFlags, recProc, recWs, recSend, recAcc,
                    listenerLocals, stopLocals, recHist >>

\* process_audio_question: the first statement of stop_recording is run by a
\* thread that on_release has started
StopThreadRuns ==
    IF spc = "idle" THEN stop_threads = 1 /\ stop_threads' = 0
    ELSE UNCHANGED stop_threads

\* history: start_recording returned from one of its two failure branches, and
\* no start_recording call has been made since
StartOutcome ==
    h_failed' = IF kpc \in {"spawn", "wait"} /\ kpc' = "idle" THEN TRUE
                ELSE IF kpc = "idle" /\ kpc' # "idle" THEN FALSE
                ELSE h_failed

\* Thread(target=send_audio).start(): the sender that is followed begins;
\* history: an event is applied after a send or a read of the sender raised
SenderFollowed ==
    IF kpc = "sender" /\ kpc' = "idle"
    THEN /\ apc' = "loop" /\ a_sess' = k_sess
         /\ UNCHANGED << a_pipe, frames, h_chunks, h_exit_open, h_send_failed,
                         h_after_fail >>
    ELSE /\ h_after_fail' = (h_after_fail \/ (h_send_failed /\ h_msgs' # h_msgs))
         /\ UNCHANGED << apc, a_sess, a_pipe, frames, h_chunks, h_exit_open,
                         h_send_failed >>

\* one recording session whose sender is followed statement by statement
NextSend ==
    /\ \/ /\ \/ StartRecording
             \/ \E s \in Sessions : WsOpen(s) \/ WsEnd(s) \/ WsMessage(s) \/ ProcExit(s)
             \/ StopRecording
          /\ SenderFollowed
       \/ SendAudio
    /\ h_sessions' <= RecSessions
    /\ h_msgs' <= KeyEvents
    /\ UNCHANGED keyvars
    /\ UNCHANGED msgvars
    /\ UNCHANGED srcvars
    /\ UNCHANGED hotvars
    /\ UNCHANGED dmnvars
    /\ UNCHANGED ctxvars

\* history: the sessions started when stop_recording executed
\* self.is_recording = False; the last of them is the one it stops
StopTarget ==
    h_target' = IF spc = "set_flag" /\ spc' = "terminate" THEN h_sessions ELSE h_target

\* the transcriber under the key handlers of run_daemon
InitKeys ==
    /\ InitCtx /\ solver /\ max_recent_entries = 3
    /\ InitRecorder /\ utterance = { <<"a", " ">> }

NextKeys ==
    /\ \/ KeyRelease
       \/ (StartRecording \/ SessionThreads) /\ UNCHANGED stop_threads
       \/ StopRecording /\ StopThreadRuns
    /\ StartOutcome
    /\ StopTarget
    /\ h_msgs' <= KeyEvents
    /\ UNCHANGED sendvars
    /\ UNCHANGED msgvars
    /\ UNCHANGED srcvars
    /\ UNCHANGED hotvars
    /\ UNCHANGED dmnvars
    /\ UNCHANGED ctxvars

SpecKeys == InitKeys /\ [][NextKeys]_vars

SpecSend == InitKeys /\ [][NextSend]_vars

\* history: an event was applied after a message that was not
MessageFollowed ==
    /\ h_after_bad' = (h_after_bad \/ (h_bad # <<>> /\ h_msgs' # h_msgs))
    /\ UNCHANGED h_bad

\* one recording session that receives well-formed events and other messages
NextMsg ==
    /\ \/ (StartRecording \/ SessionThreads \/ StopRecording) /\ MessageFollowed
       \/ \E s \in Sessions : WsBadMessage(s)
    /\ h_sessions' <= RecSessions
    /\ h_msgs' <= KeyEvents
    /\ UNCHANGED keyvars
    /\ UNCHANGED sendvars
    /\ UNCHANGED srcvars
    /\ UNCHANGED hotvars
    /\ UNCHANGED dmnvars
    /\ UNCHANGED ctxvars

SpecMsg == InitKeys /\ [][NextMsg]_vars

\* history: _on_message of the connection of session s has written the
\* accumulator
SourceOfMessage(s) ==
    /\ h_chunk_src' = IF final_chunks' # final_chunks
                      THEN Append(h_chunk_src, s) ELSE h_chunk_src
    /\ h_partial_src' = IF partial' = <<>> THEN 0 ELSE s
    /\ UNCHANGED h_rd_src

\* history: a step of start_recording or stop_recording; the resets empty the
\* accumulator, the locked section of stop_recording reads it
SourceKept ==
    /\ h_chunk_src' = IF final_chunks' = final_chunks THEN h_chunk_src ELSE <<>>
    /\ h_partial_src' = IF partial' = partial THEN h_partial_src ELSE 0
    /\ h_rd_src' = IF spc = "read_chunks" /\ spc' # spc
                   THEN { h_chunk_src[i] : i \in 1..Len(h_chunk_src) }
                   ELSE IF spc = "append_partial" /\ spc' # spc /\ partial # <<>>
                   THEN h_rd_src \cup {h_partial_src}
                   ELSE h_rd_src

\* history: start_recording and stop_recording have never been in progress
\* together
Apart ==
    h_apart' = (h_apart /\ (kpc' \in {"idle", "returned_early"}
                             \/ spc' \in {"idle", "returned", "returned_early"}))

\* the key handlers, with the connection every text of the accumulator came from
NextLate ==
    /\ \/ KeyRelease /\ SourceKept
       \/ StartRecording /\ UNCHANGED stop_threads /\ SourceKept
       \/ \E s \in Sessions :
            /\ WsOpen(s) \/ WsEnd(s) \/ ProcExit(s) \/ SenderExit(s)
            /\ UNCHANGED stop_threads /\ SourceKept
       \/ \E s \in Sessions : WsMessage(s) /\ UNCHANGED stop_threads /\ SourceOfMessage(s)
       \/ StopRecording /\ StopThreadRuns /\ SourceKept
    /\ Apart
    /\ StartOutcome
    /\ StopTarget
    /\ h_msgs' <= KeyEvents
    /\ UNCHANGED sendvars
    /\ UNCHANGED msgvars
    /\ UNCHANGED hotvars
    /\ UNCHANGED dmnvars
    /\ UNCHANGED ctxvars

SpecLate == InitKeys /\ [][NextLate]_vars

\* ------------------------------------------- run_daemon: on_press, on_release
CtrlKeys == {"ctrl_l", "ctrl_r"}

\* what a handler that does not call the recorder leaves alone
handlerFrame == << utterance, recFlags, recProc, recWs, recSend, recAcc, listenerLocals,
                   stopLocals, recHist >>

\* on_press: if key in (Key.ctrl_l, Key.ctrl_r): ctrl_pressed = True; return
OnPressCtrl(k) ==
    /\ kpc = "idle"
    /\ ctrl_pressed' = TRUE
    /\ h_down' = h_down \cup {k}
    /\ UNCHANGED << num_lock_pressed, stop_threads, handlerFrame >>

\* on_press: if key == Key.num_lock: if not num_lock_pressed:
\* num_lock_pressed = True; if not ctrl_pressed: transcriber.start_recording()
OnPressNumLock ==
    /\ kpc = "idle"
    /\ h_down' = h_down \cup {"num_lock"}
    /\ IF ~num_lock_pressed
       THEN /\ num_lock_pressed' = TRUE
            /\ IF ~ctrl_pressed THEN StartCall ELSE UNCHANGED handlerFrame
       ELSE UNCHANGED << num_lock_pressed, handlerFrame >>
    /\ UNCHANGED << ctrl_pressed, stop_threads >>

\* on_release: if key in (Key.ctrl_l, Key.ctrl_r): ctrl_pressed = False
OnReleaseCtrl(k) ==
    /\ kpc = "idle"
    /\ k \in h_down
    /\ ctrl_pressed' = FALSE
    /\ h_down' = h_down \ {k}
    /\ UNCHANGED << num_lock_pressed, stop_threads, handlerFrame >>

\* on_release: elif key == Key.num_lock: if num_lock_pressed:
\* num_lock_pressed = False; if not ctrl_pressed: Thread(process_audio_question)
OnReleaseNumLock ==
    /\ kpc = "idle"
    /\ "num_lock" \in h_down
    /\ h_down' = h_down \ {"num_lock"}
    /\ IF num_lock_pressed
       THEN /\ num_lock_pressed' = FALSE
            /\ IF ~ctrl_pressed THEN KeyRelease
               ELSE UNCHANGED << stop_threads, handlerFrame >>
       ELSE UNCHANGED << num_lock_pressed, stop_threads, handlerFrame >>
    /\ UNCHANGED ctrl_pressed

\* the key handlers of run_daemon with the recorder they drive
NextHotkey ==
    /\ \/ \E k \in CtrlKeys : OnPressCtrl(k) \/ OnReleaseCtrl(k)
       \/ OnPressNumLock
       \/ OnReleaseNumLock
       \/ kpc # "idle" /\ StartRecording /\ UNCHANGED << stop_threads, hotvars >>
       \/ SessionThreads /\ UNCHANGED << stop_threads, hotvars >>
       \/ StopRecording /\ StopThreadRuns /\ UNCHANGED hotvars
    /\ h_sessions' <= RecSessions
    /\ StartOutcome
    /\ StopTarget
    /\ h_msgs' <= KeyEvents
    /\ UNCHANGED sendvars
    /\ UNCHANGED msgvars
    /\ UNCHANGED srcvars
    /\ UNCHANGED dmnvars
    /\ UNCHANGED ctxvars

SpecHotkey == InitKeys /\ [][NextHotkey]_vars

\* --------------------------------------- process_sql_task, human_like_typing
\* process_sql_task, in the listener thread: if typing_active: return; the
\* model answers with a text of one to MaxLines lines and
\* Thread(target=self.human_like_typing, args=(solution,)).start()
ProcessSqlTask ==
    /\ ~typing_active
    /\ \E t \in Typers :
         /\ tpc[t] = "none"
         /\ \A u \in Typers : u < t => tpc[u] # "none"
         /\ \E n \in 1..MaxLines : t_left' = [t_left EXCEPT ![t] = n]
         /\ tpc' = [tpc EXCEPT ![t] = "check"]
    /\ UNCHANGED << typing_active, typing_paused, h_toggles >>

\* if not text or typing_active: return
TypingCheck(t) ==
    /\ tpc[t] = "check"
    /\ tpc' = [tpc EXCEPT ![t] = IF typing_active THEN "done" ELSE "set"]
    /\ UNCHANGED << typing_active, typing_paused, t_left, h_toggles >>

\* typing_active = True
TypingSet(t) ==
    /\ tpc[t] = "set"
    /\ typing_active' = TRUE
    /\ tpc' = [tpc EXCEPT ![t] = "setup"]
    /\ UNCHANGED << typing_paused, t_left, h_toggles >>

\* keyboard = Controller(); dpy = display.Display(): before the try, so an
\* exception here ends the thread without the finally
TypingSetup(t) ==
    /\ tpc[t] = "setup"
    /\ \/ tpc' = [tpc EXCEPT ![t] = "loop"]
       \/ tpc' = [tpc EXCEPT ![t] = "raised"]
    /\ UNCHANGED << typing_active, typing_paused, t_left, h_toggles >>

\* for line in lines: the wait while typing_paused, then the line and Enter;
\* an exception inside the try is swallowed and the finally runs
TypingLine(t) ==
    /\ tpc[t] = "loop"
    /\ IF t_left[t] = 0
       THEN /\ tpc' = [tpc EXCEPT ![t] = "finally"]
            /\ UNCHANGED t_left
       ELSE /\ ~typing_paused
            /\ \/ /\ t_left' = [t_left EXCEPT ![t] = @ - 1]
                  /\ UNCHANGED tpc
               \/ /\ tpc' = [tpc EXCEPT ![t] = "finally"]
                  /\ UNCHANGED t_left
    /\ UNCHANGED << typing_active, typing_paused, h_toggles >>

\* finally: typing_active = False
TypingFinally(t) ==
    /\ tpc[t] = "finally"
    /\ typing_active' = FALSE
    /\ tpc' = [tpc EXCEPT ![t] = "done"]
    /\ UNCHANGED << typing_paused, t_left, h_toggles >>

\* toggle_typing_pause: typing_paused = not typing_paused
TogglePause ==
    /\ h_toggles < MaxToggles
    /\ typing_paused' = ~typing_paused
    /\ h_toggles' = h_toggles + 1
    /\ UNCHANGED << typing_active, tpc, t_left >>

HumanLikeTyping(t) ==
    TypingCheck(t) \/ TypingSet(t) \/ TypingSetup(t) \/ TypingLine(t) \/ TypingFinally(t)

NextTyping ==
    /\ ProcessSqlTask \/ TogglePause \/ \E t \in Typers : HumanLikeTyping(t)
    /\ UNCHANGED << tgvars, streamvars, tgHist >>
    /\ UNCHANGED recOnly
    /\ UNCHANGED ctxvars

SpecTyping == InitKeys /\ [][NextTyping]_vars

\* ----------------------------- ClipboardSender.send_to_telegram and its callers
\* characters: two printable ones, the newline, and one that is not printable
Printable(c) == c \in {"a", "b", "\n"}

\* clean_telegram_message: the characters that are printable or in "\n\r\t"
RECURSIVE Clean(_)
Clean(text) ==
    IF text = <<>> THEN <<>>
    ELSE IF Printable(Head(text)) THEN <<Head(text)>> \o Clean(Tail(text))
    ELSE Clean(Tail(text))

CharCode(c) == CASE c = "a" -> 97 [] c = "b" -> 98 [] c = "\n" -> 10 [] OTHER -> 0

\* hash(message): a polynomial hash of the characters, reduced to the width
\* the integers here allow
RECURSIVE HashFrom(_, _)
HashFrom(h, text) ==
    IF text = <<>> THEN h
    ELSE HashFrom((h * 31 + CharCode(Head(text))) % 16777213, Tail(text))

Hash(text) == HashFrom(Len(text) + 7, text)

\* "\n\n" in buffer
RECURSIVE HasBlankLine(_)
HasBlankLine(text) ==
    IF Len(text) < 2 THEN FALSE
    ELSE (text[1] = "\n" /\ text[2] = "\n") \/ HasBlankLine(Tail(text))

RECURSIVE Concat(_)
Concat(texts) == IF texts = <<>> THEN <<>> ELSE Head(texts) \o Concat(Tail(texts))

\* the texts the clipboard and the F-key threads send; a long one has more
\* than 4000 characters and goes out in two parts
DirectTexts == { <<"a">>, <<"a", "NUL">>, <<"b">> }

\* the non-empty pieces a stream delivers
Pieces == { <<"a">>, <<"b">>, <<"\n", "\n">>, <<"a", "NUL">> }

\* send_to_telegram up to its first send: message = clean(message);
\* h = hash(message); now = time.time(); if h == self._last_sent_hash and
\* (now - self._last_sent_time) < self._debounce_seconds: return False
BeginSend(message, long, stream) ==
    LET m == Clean(message)
        h == Hash(m)
    IN /\ gpc = "idle"
       /\ g_message' = m /\ g_h' = h /\ g_now' = tg_now /\ g_stream' = stream
       /\ IF last_sent_hash = <<h>> /\ tg_now - last_sent_time < debounce_seconds
          THEN /\ gpc' = "idle" /\ g_left' = 0 /\ g_ok' = FALSE
          ELSE /\ gpc' = "send" /\ g_left' = (IF long THEN 2 ELSE 1) /\ g_ok' = TRUE
       /\ UNCHANGED << h_prev_text, h_prev_ok >>
       /\ UNCHANGED << tg_now, last_sent_hash, last_sent_time, delivered,
                       h_ok_text, h_ok_time, h_refused >>

\* process_clipboard and the F1..F3 threads call send_to_telegram
DirectSend ==
    /\ h_direct < MaxDirect
    /\ h_direct' = h_direct + 1
    /\ \E text \in DirectTexts, long \in BOOLEAN : BeginSend(text, long, FALSE)
    /\ UNCHANGED streamvars

\* a send_to_telegram that records the message also when a part failed
SendPartsAlwaysRecords ==
    /\ gpc = "send"
    /\ \E accepted \in BOOLEAN :
         /\ delivered' = IF accepted THEN Append(delivered, g_message) ELSE delivered
         /\ g_ok' = (g_ok /\ accepted)
         /\ h_refused' = (h_refused \/ ~accepted)
         /\ g_left' = g_left - 1
         /\ IF g_left = 1
            THEN /\ gpc' = "idle"
                 /\ last_sent_hash' = <<g_h>>
                 /\ last_sent_time' = g_now
                 /\ h_ok_text' = IF g_ok /\ accepted THEN <<g_message>> ELSE h_ok_text
                 /\ h_ok_time' = IF g_ok /\ accepted THEN g_now ELSE h_ok_time
                 /\ h_prev_text' = g_message /\ h_prev_ok' = (g_ok /\ accepted)
            ELSE UNCHANGED << gpc, last_sent_hash, last_sent_time, h_ok_text, h_ok_time,
                              h_prev_text, h_prev_ok >>
    /\ UNCHANGED << tg_now, g_message, g_h, g_now, g_stream, h_direct >>

\* _send_single_message for the message or for the next of its parts: Telegram
\* accepts it or the post fails; after the last one, if ok:
\* self._last_sent_hash = h; self._last_sent_time = now; return ok
SendParts ==
    /\ gpc = "send"
    /\ \E accepted \in BOOLEAN :
         /\ delivered' = IF accepted THEN Append(delivered, g_message) ELSE delivered
         /\ g_ok' = (g_ok /\ accepted)
         /\ h_refused' = (h_refused \/ ~accepted)
         /\ g_left' = g_left - 1
         /\ IF g_left = 1
            THEN /\ gpc' = "idle"
                 /\ last_sent_hash' = IF g_ok /\ accepted THEN <<g_h>> ELSE last_sent_hash
                 /\ last_sent_time' = IF g_ok /\ accepted THEN g_now ELSE last_sent_time
                 /\ h_ok_text' = IF g_ok /\ accepted THEN <<g_message>> ELSE h_ok_text
                 /\ h_ok_time' = IF g_ok /\ accepted THEN g_now ELSE h_ok_time
                 /\ h_prev_text' = g_message /\ h_prev_ok' = (g_ok /\ accepted)
            ELSE UNCHANGED << gpc, last_sent_hash, last_sent_time, h_ok_text, h_ok_time,
                              h_prev_text, h_prev_ok >>
    /\ UNCHANGED << tg_now, g_message, g_h, g_now, g_stream, h_direct >>

\* time passes
TgTick ==
    /\ tg_now < MaxClock
    /\ tg_now' = tg_now + 1
    /\ UNCHANGED << last_sent_hash, last_sent_time, delivered, gpc, g_message, g_h,
                    g_now, g_ok, g_left, g_stream, tgHist >>

\* send_to_api_streaming is called: buffer = ""; full = []; last_send = 0.0
StreamBegin ==
    /\ qpc = "idle" /\ h_pieces = 0
    /\ qpc' = "recv"
    /\ buffer' = <<>> /\ full' = <<>> /\ last_send' = 0
    /\ UNCHANGED << h_pieces, h_flushed >>

\* one iteration of the loop with a non-empty piece: buffer += piece;
\* full.append(piece); the flush when the buffer is long, holds a blank line or
\* the last flush is more than a second old
StreamPiece ==
    /\ qpc = "recv" /\ gpc = "idle"
    /\ h_pieces < MaxPieces
    /\ h_pieces' = h_pieces + 1
    /\ \E piece \in Pieces :
         LET b == buffer \o piece
         IN /\ full' = Append(full, piece)
            /\ IF \/ Len(b) >= flush_length
                  \/ HasBlankLine(b)
                  \/ tg_now - last_send > flush_seconds
               THEN /\ BeginSend(b, FALSE, TRUE)
                    /\ h_flushed' = Append(h_flushed, b)
                    /\ last_send' = tg_now
                    /\ buffer' = <<>>
               ELSE /\ buffer' = b
                    /\ UNCHANGED << tgvars, h_ok_text, h_ok_time, h_prev_text,
                                    h_prev_ok, h_refused, last_send, h_flushed >>
    /\ UNCHANGED << qpc, h_direct >>

\* the stream ends: if buffer and self.telegram_sender: send_to_telegram(buffer)
StreamEnd ==
    /\ qpc = "recv" /\ gpc = "idle"
    /\ h_pieces > 0
    /\ qpc' = "done"
    /\ IF buffer # <<>>
       THEN /\ BeginSend(buffer, FALSE, TRUE)
            /\ h_flushed' = Append(h_flushed, buffer)
       ELSE UNCHANGED << tgvars, h_ok_text, h_ok_time, h_prev_text, h_prev_ok,
                         h_refused, h_flushed >>
    /\ UNCHANGED << buffer, full, last_send, h_pieces, h_direct >>

\* iter_lines raises: except Exception: return None
StreamFails ==
    /\ qpc = "recv" /\ gpc = "idle"
    /\ qpc' = "failed"
    /\ UNCHANGED << tgvars, tgHist, buffer, full, last_send, h_pieces, h_flushed >>

\* the calls of send_to_telegram by the clipboard and the F-key threads
NextTelegram ==
    /\ DirectSend \/ SendParts \/ TgTick
    /\ UNCHANGED streamvars
    /\ UNCHANGED typevars
    /\ UNCHANGED recOnly
    /\ UNCHANGED ctxvars

SpecTelegram == InitKeys /\ [][NextTelegram]_vars

\* one send_to_api_streaming call with the sends it makes
NextStream ==
    /\ \/ SendParts /\ UNCHANGED streamvars
       \/ TgTick /\ UNCHANGED streamvars
       \/ StreamBegin /\ UNCHANGED << tgvars, tgHist >>
       \/ StreamPiece
       \/ StreamEnd
       \/ StreamFails
    /\ UNCHANGED typevars
    /\ UNCHANGED recOnly
    /\ UNCHANGED ctxvars

SpecStream == InitKeys /\ [][NextStream]_vars

\* ------------------------------------------------------------------ claims
\* no call of the caller thread is in progress and the worker is outside its
\* locked section: every mutation begun has completed
Settled == cpc = "idle" /\ summarization_lock = "free"

\* C1 (as stated): after every completed mutation _token_count equals the sum
\* of tokens over recent_qa, also when summarizations completed between calls.
\* Stated here for the runs in which no call overlapped a locked section of
\* the worker, where every mutation ran alone.
C1_TokenCountIsSum ==
    (Settled /\ ~h_overlap) => token_count = SumTokens(recent_qa)

\* C1 (amended): after every completed mutation, _token_count equals the sum of
\* tokens over recent_qa as long as no collapse of the summarization worker has
\* rewritten recent_qa and _token_count since construction or since the last
\* clear began; this holds after each add_qa call of any sequence of add_qa
\* calls, also when summarizations that installed a summary without collapsing
\* recent_qa have completed in between.
C1_TokenCountIsSumUntilCollapse ==
    (Settled /\ ~h_shrunk) => token_count = SumTokens(recent_qa)

C1_Witness ==
    /\ Settled /\ ~h_shrunk /\ wpc = "get"
    /\ h_ver > 0 /\ summary # <<>> /\ h_gone # {} /\ Len(recent_qa) = max_recent_entries

\* C2: when add_qa has returned, recent_qa holds at most max_recent_entries
\* entries, whatever the worker did in between.
C2_BoundedAfterAddQa ==
    cpc \in {"idle", "add_check", "add_put"} => Len(recent_qa) <= max_recent_entries

C2_Witness ==
    /\ cpc = "idle" /\ h_count > max_recent_entries /\ h_ver > 0
    /\ Len(recent_qa) = max_recent_entries

\* C3: with no summarization collapse, after n add_qa calls recent_qa is the
\* last min(n, max_recent_entries) turns added, in insertion order.
C3_EvictionIsFifo ==
    (cpc = "idle" /\ ~h_shrunk /\ h_clears = 0) =>
        LET n == IF h_count < max_recent_entries THEN h_count ELSE max_recent_entries
        IN /\ Len(recent_qa) = n
           /\ \A i \in 1..n : recent_qa[i].uid = h_count - n + i
           /\ recent_qa = h_expect

C3_Witness ==
    /\ cpc = "idle" /\ ~h_shrunk /\ h_count > max_recent_entries + 1
    /\ Len(recent_qa) = max_recent_entries

\* C4: a stop_recording called while is_recording is false returns None at once
\* and changes no state of the transcriber: the flags and events, the process,
\* the connection, the sender and the accumulator are what they were.
C4_StopWhenNotRecordingIsNoOp ==
    [][(spc = "idle" /\ spc' # "idle" /\ ~is_recording) =>
          /\ spc' = "returned_early"
          /\ s_result' = None
          /\ UNCHANGED << is_recording, stop_sending, ws_connected, ffmpeg_process, proc,
                          ws_app, conn, send_thread, sender, transcript_lock,
                          final_chunks, partial >>]_vars

\* a second stop_recording has returned after a completed one, with a late
\* partial left in the accumulator
C4_Witness ==
    /\ spc = "returned_early" /\ s_result = None
    /\ h_stops > 0 /\ ~is_recording /\ partial # <<>>

\* the events of a history with their transcripts stripped
C5_Stripped(evs) ==
    [i \in 1..Len(evs) |-> [final |-> evs[i].final, transcript |-> Strip(evs[i].transcript)]]

C5_Example ==
    << [final |-> FALSE, transcript |-> <<"h", "e">>],
       [final |-> FALSE, transcript |-> <<"h", "e", "l", "l", "o">>],
       [final |-> TRUE, transcript |-> <<"h", "e", "l", "l", "o", " ", "w", "o", "r", "l", "d">>] >>

\* C5: every Results message delivered to _on_message: a non-final one replaces
\* _partial with its text and leaves _final_chunks unchanged; a final one
\* appends its text to _final_chunks when the text is non-empty and clears
\* _partial in every case.  After the events partial(he), partial(hello),
\* final(hello world) applied to an empty accumulator, the accumulator holds
\* the one chunk "hello world" and the transcript stop_recording returns for
\* them is "hello world".
C5_OnMessageAccumulates ==
    /\ [](/\ (h_exact /\ C5_Stripped(h_events) = C5_Example) =>
                (final_chunks = << <<"h", "e", "l", "l", "o", " ", "w", "o", "r", "l", "d">> >> /\ partial = <<>>)
          /\ (spc = "returned" /\ h_read_exact /\ C5_Stripped(h_read_events) = C5_Example) =>
                s_result = <<"h", "e", "l", "l", "o", " ", "w", "o", "r", "l", "d">>)
    /\ [][h_msgs' # h_msgs =>
            LET text == Strip(h_last'.transcript)
            IN IF h_last'.final
               THEN /\ final_chunks' = (IF text = <<>> THEN final_chunks
                                                       ELSE final_chunks \o <<text>>)
                    /\ partial' = <<>>
               ELSE /\ partial' = text
                    /\ final_chunks' = final_chunks]_vars

C5_Witness ==
    /\ spc = "returned" /\ h_read_exact /\ C5_Stripped(h_read_events) = C5_Example
    /\ s_result = <<"h", "e", "l", "l", "o", " ", "w", "o", "r", "l", "d">>

\* the parts put one after the other with one space between two of them
RECURSIVE C6_Spaced(_)
C6_Spaced(parts) ==
    IF parts = <<>> THEN <<>>
    ELSE LET init == SubSeq(parts, 1, Len(parts) - 1)
         IN IF init = <<>> THEN parts[Len(parts)]
            ELSE C6_Spaced(init) \o <<" ">> \o parts[Len(parts)]

\* the text without the spaces at its ends
C6_Trimmed(t) ==
    IF \A i \in 1..Len(t) : t[i] = " " THEN <<>>
    ELSE LET first == CHOOSE i \in 1..Len(t) : t[i] # " " /\ \A j \in 1..(i - 1) : t[j] = " "
             last == CHOOSE i \in 1..Len(t) : t[i] # " " /\ \A j \in (i + 1)..Len(t) : t[j] = " "
         IN SubSeq(t, first, last)

C6_Example ==
    << [final |-> TRUE, transcript |-> <<"p", "a", "r", "t", " ", "o", "n", "e">>],
       [final |-> FALSE, transcript |-> <<"p", "a", "r", "t", " ", "t", "w">>] >>

\* C6: a stop_recording of a recording session returns the entries of
\* _final_chunks it read, in order, followed by the _partial it read when that
\* is non-empty, joined with single spaces and trimmed, and None when this
\* text is empty.  For the events final(part one), partial(part tw) applied to
\* an empty accumulator it returns "part one part tw".
C6_StopReturnsTranscript ==
    spc = "returned" =>
        /\ LET parts == h_rd_chunks \o (IF h_rd_partial # <<>> THEN <<h_rd_partial>> ELSE <<>>)
               text == C6_Trimmed(C6_Spaced(parts))
           IN s_result = IF text = <<>> THEN None ELSE text
        /\ (h_read_exact /\ C5_Stripped(h_read_events) = C6_Example) =>
              s_result = <<"p", "a", "r", "t", " ", "o", "n", "e", " ", "p", "a", "r", "t", " ", "t", "w">>

C6_Witness ==
    /\ spc = "returned" /\ h_read_exact /\ C5_Stripped(h_read_events) = C6_Example
    /\ h_rd_partial = <<"p", "a", "r", "t", " ", "t", "w">> /\ s_result = <<"p", "a", "r", "t", " ", "o", "n", "e", " ", "p", "a", "r", "t", " ", "t", "w">>

\* C11: in every reachable state at most one recording session is live: at
\* most one audio child process is running, at most one connection is open
\* and at most one sender thread is running.
C11_AtMostOneSessionLive ==
    /\ Cardinality({ s \in Sessions : proc[s] = "running" }) <= 1
    /\ Cardinality({ s \in Sessions : conn[s] = "open" }) <= 1
    /\ Cardinality({ s \in Sessions : sender[s] = "running" }) <= 1

\* C12: a start_recording called while is_recording is true returns at once
\* and has no effect: no process is spawned, no connection opened, no thread
\* started, no event cleared, and _final_chunks and _partial of the running
\* session are not reset.
C12_StartWhileRecordingIsNoOp ==
    [][/\ (kpc = "idle" /\ kpc' # "idle" /\ is_recording) => kpc' = "returned_early"
       /\ ((kpc = "idle" /\ kpc' # "idle" /\ is_recording)
            \/ (kpc = "returned_early" /\ kpc' # "returned_early")) =>
             /\ kpc' \in {"returned_early", "idle"}
             /\ UNCHANGED << is_recording, stop_sending, ws_connected, ffmpeg_process,
                             proc, ws_app, conn, send_thread, sender, transcript_lock,
                             final_chunks, partial >>]_vars

\* start_recording has returned at its first line while a session with a
\* finalized chunk, a running process and a running sender is recording
C12_Witness ==
    /\ kpc = "returned_early" /\ is_recording /\ final_chunks # <<>>
    /\ ffmpeg_process # 0 /\ proc[ffmpeg_process] = "running"
    /\ send_thread # 0 /\ sender[send_thread] = "running"

\* C13: when spawning the audio process fails, or the connection does not
\* signal open within the timeout, start_recording returns and leaves the
\* transcriber idle: is_recording is false, the call has started no sender
\* thread, the process it spawned is not running, and a stop_recording that
\* follows returns None.
C13_FailedStartLeavesIdle ==
    /\ [](h_failed => ~is_recording)
    /\ [][((kpc \in {"spawn", "wait"} /\ kpc' = "idle") =>
              (/\ ~is_recording'
               /\ UNCHANGED << send_thread, sender >>
               /\ sender[k_sess] = "none"
               /\ (kpc = "wait" => (ffmpeg_process = k_sess /\ proc'[k_sess] = "exited"))))
          /\ ((h_failed /\ spc = "idle" /\ spc' # "idle") =>
                (spc' = "returned_early" /\ s_result' = None))]_vars

\* the stop_recording that followed a start_recording ended by the timeout has
\* returned None
C13_Witness ==
    /\ h_failed /\ spc = "returned_early" /\ s_result = None
    /\ ws_app # 0 /\ proc[ws_app] = "exited" /\ sender[ws_app] = "none"

\* C14: a stop_recording that has begun completes with is_recording false.
C14_StopCompletesNotRecording ==
    [][(spc = "reset_partial" /\ spc' = "returned") => ~is_recording']_vars

\* C15: when a stop_recording of a recording session returns, the accumulator
\* is reset: _final_chunks is empty and _partial is empty.
C15_AccumulatorResetAtReturn ==
    [][(spc = "reset_partial" /\ spc' = "returned") =>
          (final_chunks' = <<>> /\ partial' = <<>>)]_vars

\* a step of the thread that called add_qa
C16_CallerStep == AddQa /\ Overlapped /\ UNCHANGED recvars

\* the number of steps add_qa has left at most: four for every entry above
\* max_recent_entries still to evict, and the steps up to the return
C16_StepsLeft ==
    LET e == IF Len(recent_qa) > max_recent_entries
             THEN Len(recent_qa) - max_recent_entries ELSE 0
        e1 == IF Len(recent_qa) - 1 > max_recent_entries
              THEN Len(recent_qa) - 1 - max_recent_entries ELSE 0
    IN CASE cpc = "idle" -> 0
         [] cpc = "add_put" -> 1
         [] cpc = "add_check" -> 2
         [] cpc = "add_while" -> 3 + 4 * e
         [] cpc = "add_pop" -> 6 + 4 * e1
         [] cpc = "add_dec_read" -> 5 + 4 * e
         [] cpc = "add_dec_write" -> 4 + 4 * e
         [] cpc = "add_inc_write" -> 4 + 4 * e
         [] cpc = "add_inc_read" -> 5 + 4 * e

\* C16: add_qa never waits for the queue or for a summarization: in every state
\* of a call in progress, whatever the worker is doing (waiting, inside
\* send_summarization, holding _summarization_lock) and whatever the queue
\* holds, the caller's next step can be taken; the call has at most 9 steps
\* left, every step of the caller takes one or more away and no step of the
\* worker adds any; the put_nowait step either appends the batch or, when the
\* queue is full, drops it, and leaves recent_qa and _token_count as the call
\* made them.
C16_AddQaNeverBlocks ==
    /\ [](cpc # "idle" => ENABLED C16_CallerStep)
    /\ [](C16_StepsLeft <= 9)
    /\ [][/\ (cpc # "idle" /\ cpc' # cpc) => C16_StepsLeft' < C16_StepsLeft
          /\ cpc' = cpc => C16_StepsLeft' <= C16_StepsLeft
          /\ (cpc = "add_put" /\ cpc' # cpc) =>
                /\ cpc' = "idle"
                /\ recent_qa' = recent_qa /\ token_count' = token_count
                /\ summarization_queue' = (IF QueueFull THEN summarization_queue
                                            ELSE Append(summarization_queue, recent_qa))]_vars

\* a call has appended its turn and returned while the worker held the lock
\* it had taken before the call began
C16_Witness ==
    /\ cpc = "idle" /\ summarization_lock = "worker"
    /\ h_count \in Uids(recent_qa) /\ h_count \notin Uids(h_pre)

\* C17: the number of batches waiting in _summarization_queue stays below a
\* constant however many turns are added and however slow the collaborator is:
\* here, below the number of add_qa calls made less one.
C17_QueueBounded == Len(summarization_queue) < MaxTurns - 1

\* the question line and the answer line of every turn, each after a newline
RECURSIVE C18_TurnText(_)
C18_TurnText(turns) ==
    IF turns = <<>> THEN <<>>
    ELSE C18_TurnText(SubSeq(turns, 1, Len(turns) - 1))
         \o <<"\n", "[PO]">> \o turns[Len(turns)].question
         \o <<"\n", "[Assistant]">> \o turns[Len(turns)].answer

\* the summary block, then the heading of the recent turns and their lines
C18_Expected(smry, turns) ==
    LET block == IF smry = <<>> THEN <<>> ELSE <<"[Summary]", "\n">> \o smry \o <<"\n">>
        shown == [i \in 1..(IF Len(turns) < QueryCount THEN Len(turns) ELSE QueryCount) |->
                    turns[Len(turns) - (IF Len(turns) < QueryCount THEN Len(turns)
                                        ELSE QueryCount) + i]]
    IN IF turns = <<>> THEN block
       ELSE (IF smry = <<>> THEN <<>> ELSE block \o <<"\n">>)
            \o <<"[Recent]">> \o C18_TurnText(shown)

\* C18: get_context_for_query returns the summary block when summary is
\* non-empty, followed by the heading and the recent turns (the last QueryCount
\* entries of recent_qa) in insertion order, a question line and an answer line
\* for each, and the empty string when there is neither summary nor turn; no
\* step of it changes recent_qa, summary, _token_count or the queue.
C18_QueryContextRendered ==
    /\ []((rpc = "done" /\ r_kind = "query") =>
            /\ r_result = C18_Expected(summary, recent_qa)
            /\ (summary = <<>> /\ recent_qa = <<>>) => r_result = <<>>)
    /\ [][rpc' # rpc => UNCHANGED << recent_qa, summary, token_count,
                                      summarization_queue >>]_vars

\* a call has returned the summary and the last four of five turns, the last
\* two of which differ
C18_Witness ==
    /\ rpc = "done" /\ r_kind = "query"
    /\ summary # <<>> /\ Len(recent_qa) = 5
    /\ recent_qa[4].question # recent_qa[5].question
    /\ r_result = C18_Expected(summary, recent_qa)

\* C19: the worker never leaves its loop: a send_summarization that failed (it
\* returns None for every exception of the request) puts the worker back at
\* its queue.get with the lock free, the waiting batches still in the queue
\* and summary, recent_qa and _token_count untouched; the worker is back at
\* queue.get again and again, and every batch that waits in the queue is taken
\* from it.
C19_WorkerSurvivesFailure ==
    /\ [][(h_attempts' > h_attempts /\ h_successes' = h_successes) =>
            /\ wpc' = "get"
            /\ UNCHANGED << summarization_queue, summarization_lock, summary,
                            recent_qa, token_count, last_summarization_time >>]_vars
    /\ []<>(wpc = "get")
    /\ [](summarization_queue # <<>> => <>(summarization_queue = <<>>))

\* two attempts have failed and the third, for the batch of the fourth add_qa,
\* which began after the first failure, has got its summary
C19_Witness ==
    /\ wpc = "lock" /\ h_attempts = 3 /\ h_successes = 1 /\ h_ver = 0
    /\ h_count = 4 /\ Truthy(w_summary)

\* C20: two summarization cycles are never run less than
\* min_summarization_interval apart: a summarization that completes (its
\* summary is installed) is the first one, or the clock has advanced by
\* min_summarization_interval or more since the last one completed.
C20_Debounced ==
    [][h_ver' > h_ver =>
         (h_ver = 0 \/ now - last_summarization_time >= min_summarization_interval)]_vars

\* C21: when a successful summarization has completed (the worker leaves its
\* locked section), _token_count equals the sum of tokens of the entries in
\* recent_qa plus the token estimate of the summary just installed, whether
\* recent_qa held more or fewer entries than the collapse keeps.  Stated for
\* the runs in which no add_qa or clear overlapped a locked section.
C21_CountAfterSummarization ==
    [][(wpc = "unlock" /\ wpc' = "get" /\ ~h_overlap) =>
          token_count' = SumTokens(recent_qa') + EstimateTokens(summary')]_vars

\* C22: every turn a collapse removes from recent_qa is contained in the
\* snapshot batch the installed summary was produced from.  Stated for the
\* runs in which no add_qa overlapped a locked section of the worker.
C22_CollapseRemovesOnlySummarized ==
    [][(wpc = "assign" /\ wpc' = "sum" /\ ~h_overlap) =>
          (Uids(recent_qa) \ Uids(recent_qa')) \subseteq Uids(w_batch)]_vars

\* C23: add_qa, after appending and evicting, requests a summarization exactly
\* when _token_count > summarization_threshold and the clock is more than
\* min_summarization_interval past last_summarization_time; what it enqueues
\* is recent_qa as it is at that moment; the queue grows in no other step, and
\* no later step changes a batch that waits in the queue or that the worker
\* is summarizing.
C23_RequestExactlyWhenNeeded ==
    [][/\ (cpc = "add_check" /\ cpc' # cpc) =>
            /\ cpc' \in {"add_put", "idle"}
            /\ cpc' = "add_put" <=>
                 (/\ token_count - summarization_threshold > 0
                  /\ now - last_summarization_time - min_summarization_interval > 0)
       /\ (cpc = "add_put" /\ cpc' # cpc) =>
            summarization_queue' = summarization_queue \o << recent_qa >>
       /\ summarization_queue' # summarization_queue =>
            \/ cpc = "add_put" /\ cpc' = "idle"
            \/ /\ wpc = "get" /\ wpc' = "perform"
               /\ summarization_queue = << w_batch' >> \o summarization_queue'
       /\ (wpc \notin {"get", "perform"} /\ wpc' # "get") => w_batch' = w_batch]_vars

\* a second request has been made after a summarization with its collapse
\* completed and the interval elapsed, and its batch waits in the queue
C23_Witness ==
    /\ cpc = "idle" /\ wpc = "get" /\ summarization_queue = << recent_qa >>
    /\ h_shrunk /\ last_summarization_time > 0
    /\ now - last_summarization_time > min_summarization_interval

\* C24: the worker does not hold _summarization_lock while it waits for the
\* collaborator: the lock is free whenever the worker is at queue.get or inside
\* send_summarization, and before and after the step in which the collaborator
\* answers; it is held only between the installation of a summary text that
\* is there and the end of the with block, where every step of the worker can
\* be taken at once.
C24_LockNotHeldDuringCall ==
    /\ [](wpc \in {"get", "perform", "lock"} => summarization_lock = "free")
    /\ [](summarization_lock = "worker" =>
            /\ wpc \in {"len_check", "slice", "assign", "sum", "add_read",
                        "add_write", "unlock"}
            /\ Truthy(w_summary)
            /\ ENABLED NextWorker)
    /\ [][h_attempts' # h_attempts =>
            (summarization_lock = "free" /\ summarization_lock' = "free")]_vars

\* the worker is inside send_summarization for a second batch, the lock is
\* free and an add_qa call is in progress
C24_Witness ==
    /\ wpc = "perform" /\ w_batch # <<>> /\ solver /\ h_attempts > 0
    /\ summarization_lock = "free" /\ cpc = "add_inc_write"

\* C27: stop_recording of a recording session sets the stop signal of the
\* sender before it terminates the child process: when the terminate step is
\* taken on a session whose start_recording has returned and whose process
\* and sender run, the stop event is set.
C27_StopSignalBeforeTerminate ==
    [][(/\ spc = "terminate" /\ spc' = "set_stop" /\ kpc = "idle"
        /\ ffmpeg_process # 0 /\ proc[ffmpeg_process] = "running"
        /\ send_thread = ffmpeg_process /\ sender[send_thread] = "running") =>
          stop_sending]_vars

\* C25: once the connection of its session has dropped (_on_close or _on_error
\* has cleared the connected flag), the sender does not go on reading audio:
\* it does not pass the test of its loop and enter another read.
C25_SenderStopsAfterDrop ==
    [][(apc = "loop" /\ apc' = "read") =>
          ~(conn[a_sess] = "closed" /\ ~ws_connected)]_vars

\* C26: when the sender has left its loop with the connection open, it sends
\* CloseStream exactly once, as the last frame after its audio frames, and
\* stop_recording does not close the connection before that frame is sent.
\* A send that raised and a connection the server ended are left out.
C26_CloseStreamSent ==
    (apc = "done" /\ h_exit_open /\ ~h_send_failed /\ conn[a_sess] = "open") =>
        /\ frames # <<>>
        /\ frames[Len(frames)] = "CloseStream"
        /\ \A i \in 1..(Len(frames) - 1) : frames[i] = "audio"

C26_CloseStreamOnceBeforeClose ==
    /\ []C26_CloseStreamSent
    /\ [][(/\ spc = "close_ws" /\ spc' = "read_chunks"
           /\ ws_app # 0 /\ ws_app = a_sess /\ conn[ws_app] = "open"
           /\ h_exit_open /\ ~h_send_failed) =>
             (apc = "done" /\ frames # <<>> /\ frames[Len(frames)] = "CloseStream")]_vars

\* C28: a failure in the sender (a send or a read of the pipe that raises) ends
\* only the sender.  No step of send_audio writes _final_chunks or _partial, nor
\* the connection, the process or is_recording; a message that arrives after
\* the failure is applied to the accumulator as any other; and a stop_recording
\* that returns after the failure returns the chunks and the partial it read,
\* joined and trimmed.
C28_SenderFailureEndsOnlySender ==
    /\ [][(apc' # apc \/ h_send_failed' # h_send_failed) =>
             /\ final_chunks' = final_chunks /\ partial' = partial
             /\ conn' = conn /\ proc' = proc /\ ws_connected' = ws_connected
             /\ is_recording' = is_recording]_vars
    /\ [][(h_send_failed /\ h_msgs' # h_msgs) => OnMessage(h_last')]_vars
    /\ [](h_send_failed /\ spc = "returned" =>
            LET parts == h_rd_chunks \o (IF h_rd_partial # <<>> THEN <<h_rd_partial>> ELSE <<>>)
                text == C6_Trimmed(C6_Spaced(parts))
            IN s_result = IF text = <<>> THEN None ELSE text)

C28_Witness ==
    /\ apc = "done" /\ h_send_failed /\ h_after_fail
    /\ spc = "returned" /\ s_result # None /\ h_rd_chunks # <<>>

C30_StopActsOnItsOwnSession ==
    [][(/\ spc' # spc /\ spc \notin {"idle", "set_flag"}
        /\ h_target > 0 /\ sender[h_target] # "none"
        /\ ffmpeg_process > h_target) =>
          /\ proc'[ffmpeg_process] = proc[ffmpeg_process]
          /\ stop_sending' = stop_sending
          /\ \A s \in Sessions : s > h_target => conn'[s] = conn[s]
          /\ final_chunks' = final_chunks /\ partial' = partial]_vars

\* C31: start_recording passes its wait for the connection only when the
\* connection this call created has opened (it is not still connecting), and the connected flag is not cleared
\* by the end of another connection while the current one is open.
C31_WaitPassesOnOwnConnection ==
    /\ [][(kpc = "wait" /\ kpc' = "sender") => conn[k_sess] # "connecting"]_vars
    /\ [][(ws_connected /\ ~ws_connected' /\ ws_app # 0 /\ conn[ws_app] = "open") =>
             conn'[ws_app] # "open"]_vars

\* C32: when start_recording returns because the connection did not open in
\* time, the connection it created has been closed: it is not left connecting
\* or open, with its receiver thread alive.
C32_AbortedStartClosesConnection ==
    [][(kpc = "wait" /\ kpc' = "idle") =>
          conn'[k_sess] \notin {"connecting", "open"}]_vars

\* C33: the transcript stop_recording returns holds only text of events
\* received on the connection of the session it stops: every entry of
\* _final_chunks and the _partial it read came from the connection of the
\* session that was recording when the stop cleared is_recording.  Stated for
\* the stop of a session that was started in full after an earlier session
\* had been stopped, with no start_recording during a stop_recording.
C33_TranscriptOfOwnSession ==
    (/\ spc = "returned" /\ s_result # None
     /\ h_stops = 2 /\ h_target = 2 /\ sender[1] # "none" /\ sender[2] # "none"
     /\ h_apart) =>
        h_rd_src \subseteq {h_target}

\* C34: when clear() returns recent_qa is empty, summary is empty and
\* _token_count is 0, and while no add_qa or clear is called they stay so,
\* whatever the summarization worker does with a batch requested before.
C34_Cleared == recent_qa = <<>> /\ summary = <<>> /\ token_count = 0

C34_ClearedUntilNextAdd ==
    /\ [][(cpc = "clear_count" /\ cpc' = "idle") => C34_Cleared']_vars
    /\ [][(cpc = "idle" /\ cpc' = "idle" /\ h_clears > 0 /\ C34_Cleared) =>
             C34_Cleared']_vars

\* C35: every recording started by a press of num_lock is stopped by the
\* release of num_lock, whatever Ctrl keys are pressed or released in between:
\* when all keys are up, the handlers have returned and no stop_recording is
\* pending or in progress, is_recording is false.
C35_ReleasedKeysStopRecording ==
    (h_down = {} /\ kpc = "idle" /\ spc = "idle" /\ stop_threads = 0) => ~is_recording

\* C36: at most one human_like_typing invocation is inside its typing loop, and
\* typing_active is false once every invocation that set it has ended, by
\* whatever path.
C36_OneTyperAtATime ==
    /\ Cardinality({ t \in Typers : tpc[t] = "loop" }) <= 1
    /\ (\A t \in Typers : tpc[t] \in {"none", "check", "done", "raised"}) => ~typing_active

\* C37: every piece of the stream is forwarded to Telegram once and in order.
\* When send_to_api_streaming has ended normally, Telegram has accepted every
\* post and every piece was printable, the texts delivered, concatenated, are
\* the pieces, concatenated, and no buffer handed to send_to_telegram was held
\* back by its debounce.
C37_StreamForwardedOnce ==
    (/\ qpc = "done" /\ gpc = "idle" /\ ~h_refused
     /\ Clean(Concat(full)) = Concat(full)) =>
        /\ Concat(delivered) = Concat(full)
        /\ delivered = h_flushed

\* C38: a send_to_telegram call whose cleaned text is that of the last call
\* that returned True, made less than the debounce interval after it, sends
\* nothing; a call in which a post failed leaves _last_sent_hash and
\* _last_sent_time as they were, and a call that repeats its text right after
\* is not held back.
C38_DebounceAndRetry ==
    /\ [][h_direct' # h_direct =>
             ((h_ok_text = <<g_message'>> /\ g_now' - h_ok_time < debounce_seconds) =>
                 (gpc' = "idle" /\ delivered' = delivered))]_vars
    /\ [][delivered' # delivered =>
             ~(h_ok_text = <<g_message>> /\ g_now - h_ok_time < debounce_seconds)]_vars
    /\ [][(gpc = "send" /\ gpc' = "idle" /\ ~g_ok') =>
             (last_sent_hash' = last_sent_hash /\ last_sent_time' = last_sent_time)]_vars
    /\ [][(h_direct' # h_direct /\ ~h_prev_ok /\ g_message' = h_prev_text) =>
             gpc' = "send"]_vars

\* at one time: a long "a" whose second part failed, "a" again, delivered, and
\* a third "a" that is held back
C38_Witness ==
    /\ tg_now = StartTime /\ h_direct = 3 /\ gpc = "idle"
    /\ h_refused /\ delivered = << <<"a">>, <<"a">> >>
    /\ h_ok_text = << <<"a">> >> /\ h_prev_ok /\ h_prev_text = <<"a">>
    /\ g_message = <<"a">> /\ ~g_ok /\ g_left = 0

\* C7: a summarization whose reply was non-empty has installed the stripped
\* reply as summary, and its collapse leaves in recent_qa the most recent
\* keep-count entries recent_qa held just before it.
C7_CollapseKeepsMostRecent ==
    [][(wpc = "assign" /\ wpc' = "sum") =>
          /\ summary' = Strip(w_summary)
          /\ recent_qa' = LastN(recent_qa, keep_count)]_vars

\* C8: as long as every summarization attempt has failed, summary, recent_qa,
\* _token_count and last_summarization_time are what add_qa and clear alone
\* produce.
C8_FailuresChangeNothing ==
    h_ver = 0 => /\ summary = <<>>
                 /\ last_summarization_time = 0
                 /\ cpc = "idle" => /\ recent_qa = h_expect
                                    /\ token_count = SumTokens(h_expect)

C8_Witness ==
    /\ h_ver = 0 /\ h_attempts >= 2 /\ solver /\ cpc = "idle" /\ wpc = "get"
    /\ Len(recent_qa) >= 2

\* C9: no reader returns the summary of a collapse together with a turn that
\* this collapse removed.
C9_ReaderSnapshotAtomic ==
    ~ /\ rpc = "done"
      /\ h_rver > 0 /\ h_rver = h_ver
      /\ r_summary # <<>>
      /\ Uids(h_rturns) \cap h_removed[h_ver] # {}

\* C10: add_qa and the collapse act as if run one after the other: every turn
\* added is in recent_qa unless it was evicted, collapsed away or cleared, and
\* every weight is counted once.
C10_AddQaAndCollapseSerialized ==
    Settled => /\ (1..h_count) \subseteq (Uids(recent_qa) \cup h_gone)
               /\ token_count = SumTokens(recent_qa) + h_share

====
